---- MODULE Spec2Model ----
(***************************************************************************)
(* Hierarchical workflow engine of PM-Webportal.                           *)
(*                                                                         *)
(* The model follows src/src/app/api/enhanced-workflows/route.ts: the POST *)
(* handler (create a request) and the PATCH handler (approve, reject,      *)
(* submit), over the EnhancedWorkflowRequest collection declared in        *)
(* src/src/models/enhanced-workflow-request.ts and a directory of users;   *)
(* and the PM visit handlers of src/src/app/api/dynamic-forms/templates/   *)
(* route.ts (POST: create a visit, PATCH: activate, complete, cancel) over *)
(* the PMVisit collection of src/src/models/pm-visit.ts (SpecVisit).       *)
(*                                                                         *)
(* A handler runs as one step.  A database call that throws is an input of *)
(* the step (fault = the ordinal of the failing database call of the run,  *)
(* 0 = none): the handler's try/catch answers 500 and whatever the run had *)
(* already written stays written.  Spec is the engine over a database that *)
(* answers every call, SpecFault the engine over one whose calls may throw.*)
(* In SpecRace a PATCH run is two steps, its findById and the rest, so that *)
(* runs on one request overlap.                                            *)
(***************************************************************************)
EXTENDS Integers, Sequences, FiniteSets, TLC

VARIABLES
    users,      \* the User collection, in natural (insertion) order
    templates,  \* the DynamicFormTemplate collection
    requests,   \* the EnhancedWorkflowRequest collection; a request's _id is its index
    visits,     \* the PMVisit collection; a visit's _id is its index
    legacy,     \* the WorkflowRequest collection of the legacy /api/workflows route
    faults,     \* the handler runs so far in which a database call threw
    pending,    \* the PATCH runs that have read their request and not yet written
    last        \* the last call and its response (observer of the handlers)

vars == <<users, templates, requests, visits, legacy, faults, pending, last>>

----------------------------------------------------------------------------
(* Bounds of the model *)

MaxSteps == 6         \* history entries in the whole collection
MaxFaults == 1        \* handler runs in which a database call throws
MaxRoles == 3         \* roles a user of SpecRoles holds
MaxPending == 2       \* PATCH runs of SpecRace in flight at a time
MaxVisits == 2        \* visits of SpecVisit
MaxAudit == 5         \* audit entries in the whole PMVisit collection
MaxDay == 40          \* the latest day a visit or its final deadline is set on
MaxListed == 2        \* requests of SpecList
MaxUsers == 3         \* users of SpecUsers, the Super Admin included
MaxLegacy == 2        \* requests of the legacy route
MaxLegacySteps == 4   \* history entries in the whole legacy collection

----------------------------------------------------------------------------
(* Values *)

NoId == 0             \* null ObjectId
Null == "null"        \* null / undefined string
NoDate == 0           \* undefined Date

DefaultMaxRollbackCount == 3

HIERARCHY_CHAIN ==
    <<"PMO", "CEO NITI", "State Advisor", "State YP", "State Division HOD", "Division YP">>

\* Array.prototype.indexOf, 1-based; 0 when absent (JavaScript's -1)
indexOf(role) ==
    IF \E i \in 1..Len(HIERARCHY_CHAIN) : HIERARCHY_CHAIN[i] = role
    THEN CHOOSE i \in 1..Len(HIERARCHY_CHAIN) : HIERARCHY_CHAIN[i] = role
    ELSE 0

getNextRole(currentRole) ==
    LET currentIndex == indexOf(currentRole)
    IN  IF currentIndex < Len(HIERARCHY_CHAIN) THEN HIERARCHY_CHAIN[currentIndex + 1] ELSE Null

getPreviousRole(currentRole) ==
    LET currentIndex == indexOf(currentRole)
    IN  IF currentIndex > 1 THEN HIERARCHY_CHAIN[currentIndex - 1] ELSE Null

\* String(x) of an ObjectId or null
StringOf(x) == IF x = NoId THEN "null" ELSE ToString(x)

\* the first element of an optional array (arr?.[0]), undefined when there is none
First(arr) == IF Len(arr) > 0 THEN arr[1] ELSE Null

----------------------------------------------------------------------------
(* Directory *)

Role(r, s, b) == [role |-> r, state |-> s, branch |-> b]
User(i, rs) == [_id |-> i, roles |-> rs]

NoUser == [_id |-> NoId, roles |-> <<>>]

\* MongoDB equality on a dotted path into an array of subdocuments: some
\* element of user.roles has the value in that field
HasRole(u, role) == \E k \in 1..Len(u.roles) : u.roles[k].role = role
HasState(u, state) == \E k \in 1..Len(u.roles) : u.roles[k].state = state
HasBranch(u, branch) == \E k \in 1..Len(u.roles) : u.roles[k].branch = branch

\* a faulty variant: the query asks for the scope alone, not for the role
RoleQueryMatches_ScopeOnly(u, role, state, branch) ==
    IF role = "PMO" \/ role = "CEO NITI"
    THEN HasRole(u, role)
    ELSE /\ HasState(u, state)
         /\ (branch # Null /\ (role = "State Division HOD" \/ role = "Division YP"))
                => HasBranch(u, branch)

\* the query findUserForRole builds
RoleQueryMatches(u, role, state, branch) ==
    IF role = "PMO" \/ role = "CEO NITI"
    THEN HasRole(u, role)
    ELSE /\ HasRole(u, role)
         /\ HasState(u, state)
         /\ (branch # Null /\ (role = "State Division HOD" \/ role = "Division YP"))
                => HasBranch(u, branch)

\* User.findOne(query): the first matching document, null when none
findUserForRole(dir, role, state, branch) ==
    IF \E i \in 1..Len(dir) : RoleQueryMatches(dir[i], role, state, branch)
    THEN dir[CHOOSE i \in 1..Len(dir) :
                /\ RoleQueryMatches(dir[i], role, state, branch)
                /\ \A j \in 1..(i - 1) : ~RoleQueryMatches(dir[j], role, state, branch)]
    ELSE NoUser

\* a faulty variant: the first hierarchy role as the roles are stored
getUserHierarchyRole_FirstStored(user) ==
    IF \E k \in 1..Len(user.roles) : indexOf(user.roles[k].role) # 0
    THEN user.roles[CHOOSE k \in 1..Len(user.roles) :
                /\ indexOf(user.roles[k].role) # 0
                /\ \A j \in 1..(k - 1) : indexOf(user.roles[j].role) = 0].role
    ELSE Null

getUserHierarchyRole(user) ==
    IF \E i \in 1..Len(HIERARCHY_CHAIN) : HasRole(user, HIERARCHY_CHAIN[i])
    THEN HIERARCHY_CHAIN[CHOOSE i \in 1..Len(HIERARCHY_CHAIN) :
                /\ HasRole(user, HIERARCHY_CHAIN[i])
                /\ \A j \in 1..(i - 1) : ~HasRole(user, HIERARCHY_CHAIN[j])]
    ELSE Null

\* requireRoles(user, allowed) of lib/auth: the user holds one of the roles
requireRoles(user, allowed) == \E r \in allowed : HasRole(user, r)

----------------------------------------------------------------------------
(* Documents *)

Targets(ss, bs, vs) == [states |-> ss, branches |-> bs, verticals |-> vs]

HistoryEntry(action, user, userRole, fromStage, toStage) ==
    [action |-> action, userId |-> user._id, userRole |-> userRole,
     fromStage |-> fromStage, toStage |-> toStage]

\* a document of EnhancedWorkflowRequestSchema with the schema's defaults
\* (maxRollbackCount: 3) for the fields the creator does not give
WorkflowDoc(createdBy, status, targets, assignee, stage, history, timeline, deadline) ==
    [createdBy |-> createdBy, status |-> status, targets |-> targets,
     currentAssigneeId |-> assignee, currentStage |-> stage, history |-> history,
     version |-> 1, versionHistory |-> <<>>, rollbackCount |-> 0,
     maxRollbackCount |-> DefaultMaxRollbackCount,
     timeline |-> timeline, deadline |-> deadline]

\* a handler's answer: the HTTP status, the error text, the collection it leaves
\* and the number of database calls the run made
Response(status, error, db, calls) ==
    [status |-> status, error |-> error, db |-> db, calls |-> calls]

\* the catch block of a handler, entered when database call number `calls` throws
InternalServerError(db, calls) == Response(500, "Internal server error", db, calls)

\* a faulty variant: the update stores the new entry in place of the history
findByIdAndUpdate_HistoryOverwritten(db, id, set, historyEntry, newVersions) ==
    [db EXCEPT ![id] = [(set @@ db[id]) EXCEPT !.history = <<historyEntry>>,
                                               !.versionHistory = @ \o newVersions]]

\* a faulty variant: the update sets the fields and drops the pushed version
findByIdAndUpdate_VersionNotPushed(db, id, set, historyEntry, newVersions) ==
    [db EXCEPT ![id] = [(set @@ db[id]) EXCEPT !.history = Append(@, historyEntry)]]

\* EnhancedWorkflowRequest.findByIdAndUpdate(id, updateData): $set of the plain
\* fields of updateData, $push of the history entry and of a version, if any
findByIdAndUpdate(db, id, set, historyEntry, newVersions) ==
    LET doc == set @@ db[id]
    IN  [db EXCEPT ![id] = [doc EXCEPT !.history = Append(@, historyEntry),
                                       !.versionHistory = @ \o newVersions]]

----------------------------------------------------------------------------
(* POST: create a request *)

\* a faulty variant: every request is filed as open, assigned or not
CreatedStatus_AlwaysOpen(currentAssigneeId) == "open"

\* a faulty variant: every request is filed as in progress, assigned or not
CreatedStatus_AlwaysInProgress(currentAssigneeId) == "in-progress"

\* the status POST gives the new request
CreatedStatus(currentAssigneeId) ==
    IF currentAssigneeId # NoId THEN "in-progress" ELSE "open"

POST(db, dir, user, targets, timeline, fault) ==
    IF ~requireRoles(user, {"PMO", "CEO NITI", "State Advisor"})
    THEN Response(403, "Forbidden", db, 0)
    ELSE
    LET userRole == getUserHierarchyRole(user)
        targetState == targets.states[1]
        targetBranch == First(targets.branches)
        nextRole == IF userRole = Null THEN Null ELSE getNextRole(userRole)
        nextUser == IF nextRole = Null THEN NoUser
                    ELSE findUserForRole(dir, nextRole, targetState, targetBranch)
        lookups == IF nextRole = Null THEN 0 ELSE 1
        found == nextUser # NoUser
        currentAssigneeId == IF found THEN nextUser._id ELSE NoId
        currentStage == IF found THEN nextRole ELSE userRole
        doc == WorkflowDoc(user._id, CreatedStatus(currentAssigneeId),
                           targets, currentAssigneeId, currentStage,
                           <<HistoryEntry("created", user, userRole, Null, currentStage)>>,
                           timeline, NoDate)
    IN  IF userRole = Null
        THEN Response(403, "Invalid user role for workflow creation", db, 0)
        ELSE IF fault \in 1..(lookups + 1)
        THEN InternalServerError(db, fault)
        ELSE Response(201, "", Append(db, doc), lookups + 1)

----------------------------------------------------------------------------
(* PATCH: approve, reject, submit *)

\* an empty updateData
NoUpdate == [f \in {} |-> 0]

\* the clone of the fan-out loop for branch b, addressed to hod
CloneDoc(workflow, user, userRole, hod, b) ==
    WorkflowDoc(workflow.createdBy, "in-progress",
                Targets(workflow.targets.states, <<b>>, workflow.targets.verticals),
                hod._id, "State Division HOD",
                <<HistoryEntry("forwarded", user, userRole,
                               workflow.currentStage, "State Division HOD")>>,
                workflow.timeline, workflow.deadline)

\* the loop over workflow.targets.branches from branch i on; acc holds the
\* collection so far, the database calls made so far and whether one has thrown
\* (sendEmail only logs: it writes nothing and does not throw)
RECURSIVE FanOut(_, _, _, _, _, _, _)
FanOut(dir, workflow, user, userRole, i, fault, acc) ==
    IF acc.thrown \/ i > Len(workflow.targets.branches)
    THEN acc
    ELSE
    LET b == workflow.targets.branches[i]
        hod == findUserForRole(dir, "State Division HOD", workflow.targets.states[1], b)
        lookup == acc.calls + 1
    IN  IF fault = lookup
        THEN [acc EXCEPT !.calls = lookup, !.thrown = TRUE]
        ELSE IF hod = NoUser
        THEN FanOut(dir, workflow, user, userRole, i + 1, fault,
                    [acc EXCEPT !.calls = lookup])
        ELSE IF fault = lookup + 1
        THEN [acc EXCEPT !.calls = lookup + 1, !.thrown = TRUE]
        ELSE FanOut(dir, workflow, user, userRole, i + 1, fault,
                    [db |-> Append(acc.db, CloneDoc(workflow, user, userRole, hod, b)),
                     calls |-> lookup + 1, thrown |-> FALSE])

\* a faulty variant: the State Advisor's deadline is adopted without comparing it
DeadlineUpdate_NotCompared(workflow, userRole, newDeadline) ==
    IF userRole = "State Advisor" /\ newDeadline # NoDate
    THEN [deadline |-> newDeadline]
    ELSE NoUpdate

\* the deadline an approving State Advisor may tighten (updateData.deadline)
DeadlineUpdate(workflow, userRole, newDeadline) ==
    LET currentDeadline == IF workflow.deadline # NoDate THEN workflow.deadline
                           ELSE workflow.timeline
    IN  IF /\ userRole = "State Advisor"
           /\ newDeadline # NoDate
           /\ newDeadline > 0
           /\ currentDeadline # NoDate
           /\ newDeadline < currentDeadline
        THEN [deadline |-> newDeadline]
        ELSE NoUpdate

\* the role whose successor an approve forwards to, and whose predecessor a
\* reject rolls back to: the actor's hierarchy role
TransitionRole(workflow, userRole) == userRole

\* a faulty variant: every approve of a request with several branches fans out
IsFanOut_AnyRole(workflow, userRole) == Len(workflow.targets.branches) > 1

\* the fan-out test of approve
IsFanOut(workflow, userRole) ==
    userRole = "State YP" /\ Len(workflow.targets.branches) > 1

\* the last write of PATCH, database call number n of the run
Write(db, id, set, entry, newVersions, n, fault) ==
    IF fault = n
    THEN InternalServerError(db, n)
    ELSE Response(200, "", findByIdAndUpdate(db, id, set, entry, newVersions), n)

\* a faulty variant: the final approval leaves the assignee in place
FinalApproval_KeepsAssignee(dl) == [status |-> "approved"] @@ dl

\* the updateData of a final approval
FinalApproval(dl) == [status |-> "approved", currentAssigneeId |-> NoId] @@ dl

\* case 'approve'; the findById of PATCH was database call 1
Approve(db, dir, id, workflow, user, userRole, newDeadline, fault) ==
    LET dl == DeadlineUpdate(workflow, userRole, newDeadline)
        entry(toStage) == HistoryEntry("approve", user, userRole, workflow.currentStage, toStage)
        final == FinalApproval(dl)
        nextRole == getNextRole(TransitionRole(workflow, userRole))
        targetState == workflow.targets.states[1]
        targetBranch == First(workflow.targets.branches)
    IN  IF nextRole = Null
        THEN Write(db, id, final, entry(Null), <<>>, 2, fault)
        ELSE IF IsFanOut(workflow, userRole)
        THEN LET out == FanOut(dir, workflow, user, userRole, 1, fault,
                               [db |-> db, calls |-> 1, thrown |-> FALSE])
                 parent == [currentAssigneeId |-> NoId,
                            currentStage |-> workflow.currentStage] @@ dl
             IN  IF out.thrown
                 THEN InternalServerError(out.db, out.calls)
                 ELSE Write(out.db, id, parent, entry(workflow.currentStage), <<>>,
                            out.calls + 1, fault)
        ELSE LET nextUser == findUserForRole(dir, nextRole, targetState, targetBranch)
                 forward == [currentAssigneeId |-> nextUser._id,
                             currentStage |-> nextRole] @@ dl
             IN  IF fault = 2
                 THEN InternalServerError(db, 2)
                 ELSE IF nextUser # NoUser
                 THEN Write(db, id, forward, entry(nextRole), <<>>, 3, fault)
                 ELSE Write(db, id, final, entry(Null), <<>>, 3, fault)

\* a faulty variant: the reject goes back without counting the rollback
Rollback_Uncounted(workflow, prevUser, prevRole) ==
    [currentAssigneeId |-> prevUser._id, currentStage |-> prevRole]

\* a faulty variant: the reject marks the request as rolled back
Rollback_MarksStatus(workflow, prevUser, prevRole) ==
    [currentAssigneeId |-> prevUser._id, currentStage |-> prevRole,
     rollbackCount |-> workflow.rollbackCount + 1, status |-> "rollback"]

\* the updateData of a successful reject
Rollback(workflow, prevUser, prevRole) ==
    [currentAssigneeId |-> prevUser._id, currentStage |-> prevRole,
     rollbackCount |-> workflow.rollbackCount + 1]

\* case 'reject'
Reject(db, dir, id, workflow, user, userRole, fault) ==
    LET prevRole == getPreviousRole(TransitionRole(workflow, userRole))
        targetState == workflow.targets.states[1]
        targetBranch == First(workflow.targets.branches)
        prevUser == findUserForRole(dir, prevRole, targetState, targetBranch)
        back == Rollback(workflow, prevUser, prevRole)
        entry == HistoryEntry("reject", user, userRole, workflow.currentStage, prevRole)
    IN  IF prevRole = Null
        THEN Response(400, "Cannot reject at this level", db, 1)
        ELSE IF fault = 2
        THEN InternalServerError(db, 2)
        ELSE IF prevUser = NoUser
        THEN Response(400, "Previous user not found", db, 2)
        ELSE Write(db, id, back, entry, <<>>, 3, fault)

\* a faulty variant: the lookup takes a retired template too
hasActiveTemplate_Retired(tpls, state, vertical) ==
    \E t \in tpls : t.state = state /\ t.vertical = vertical

\* DynamicFormTemplate.findOne({ state, vertical, isActive: true })
hasActiveTemplate(tpls, state, vertical) ==
    \E t \in tpls : t.state = state /\ t.vertical = vertical /\ t.isActive

\* case 'submit'
Submit(db, tpls, id, workflow, user, userRole, data, fault) ==
    LET state == workflow.targets.states[1]
        vertical == First(workflow.targets.verticals)
        newVersion == [version |-> workflow.version + 1, submittedBy |-> user._id]
        entry == HistoryEntry("submit", user, userRole, workflow.currentStage,
                              workflow.currentStage)
    IN  IF userRole # "Division YP"
        THEN Response(403, "Only Division YP can submit data", db, 1)
        ELSE IF ~data
        THEN Response(400, "Submission data required", db, 1)
        ELSE IF fault = 2
        THEN InternalServerError(db, 2)
        ELSE IF ~hasActiveTemplate(tpls, state, vertical)
        THEN Response(400, "No active template for state and vertical", db, 2)
        ELSE Write(db, id, [version |-> workflow.version + 1], entry, <<newVersion>>,
                   3, fault)

\* a faulty variant: a request without assignee is open to every caller
NotCurrentAssignee_UnlessUnassigned(workflow, user) ==
    /\ workflow.currentAssigneeId # NoId
    /\ StringOf(workflow.currentAssigneeId) # StringOf(user._id)

\* the assignee check of PATCH: String(workflow.currentAssigneeId) !== String(user._id)
NotCurrentAssignee(workflow, user) ==
    StringOf(workflow.currentAssigneeId) # StringOf(user._id)

\* PATCH from its assignee check on, over the workflow its findById returned
Transition(db, dir, tpls, user, id, workflow, action, data, newDeadline, fault) ==
    LET userRole == getUserHierarchyRole(user)
    IN  IF NotCurrentAssignee(workflow, user)
        THEN Response(403, "Not current assignee", db, 1)
        ELSE IF userRole = Null
        THEN Response(403, "Invalid user role", db, 1)
        ELSE CASE action = "approve" ->
                    Approve(db, dir, id, workflow, user, userRole, newDeadline, fault)
               [] action = "reject" ->
                    Reject(db, dir, id, workflow, user, userRole, fault)
               [] action = "submit" ->
                    Submit(db, tpls, id, workflow, user, userRole, data, fault)
               [] OTHER -> Response(400, "Invalid action", db, 1)

PATCH(db, dir, tpls, user, id, action, data, newDeadline, fault) ==
    IF fault = 1
    THEN InternalServerError(db, 1)
    ELSE IF id \notin 1..Len(db)
    THEN Response(404, "Workflow not found", db, 1)
    ELSE Transition(db, dir, tpls, user, id, db[id], action, data, newDeadline, fault)

----------------------------------------------------------------------------
(* The directories, templates and inputs the model draws from *)

\* the seeded hierarchy: one holder per role
DirSeed ==
    <<User(1, <<Role("PMO", Null, Null)>>),
      User(2, <<Role("CEO NITI", Null, Null)>>),
      User(3, <<Role("State Advisor", "S1", Null)>>),
      User(4, <<Role("State YP", "S1", Null)>>),
      User(5, <<Role("State Division HOD", "S1", "B1")>>),
      User(6, <<Role("Division YP", "S1", "B1")>>)>>

\* a state office with a HOD in each of two branches
DirFan ==
    <<User(1, <<Role("State Advisor", "S1", Null)>>),
      User(2, <<Role("State YP", "S1", Null)>>),
      User(3, <<Role("State Division HOD", "S1", "B1")>>),
      User(4, <<Role("State Division HOD", "S1", "B2")>>),
      User(5, <<Role("Division YP", "S1", "B2")>>)>>

\* no CEO, no HOD for B2, and a user who is State Advisor and Division YP
DirMulti ==
    <<User(1, <<Role("PMO", Null, Null)>>),
      User(2, <<Role("State Advisor", "S1", Null), Role("Division YP", "S1", "B1")>>),
      User(3, <<Role("State YP", "S1", Null)>>),
      User(4, <<Role("State Division HOD", "S1", "B1")>>)>>

\* no State Advisor in S1, and a user who is CEO and State YP of S1
DirGap ==
    <<User(1, <<Role("PMO", Null, Null)>>),
      User(2, <<Role("CEO NITI", Null, Null), Role("State YP", "S1", Null)>>),
      User(3, <<Role("State Advisor", "S2", Null)>>)>>

Directories == {DirSeed, DirFan, DirMulti, DirGap}

\* a user who is State Advisor of S2 and Division YP of S1/B1; nobody is State
\* Advisor of S1, and the HOD of S1 is in B2
DirCross ==
    <<User(1, <<Role("PMO", Null, Null)>>),
      User(2, <<Role("State Advisor", "S2", Null), Role("Division YP", "S1", "B1")>>),
      User(3, <<Role("State YP", "S1", Null)>>),
      User(4, <<Role("State Division HOD", "S1", "B2")>>)>>

\* the template of (S1, V1), active
ActiveTemplates == {[state |-> "S1", vertical |-> "V1", isActive |-> TRUE]}

\* the template of (S1, V1) active; or retired, with other templates active
TemplateSets ==
    {ActiveTemplates,
     {[state |-> "S1", vertical |-> "V1", isActive |-> FALSE],
      [state |-> "S1", vertical |-> "V2", isActive |-> TRUE],
      [state |-> "S2", vertical |-> "V1", isActive |-> TRUE]}}

TargetChoices ==
    {Targets(<<"S1">>, <<"B1">>, <<"V1">>),
     Targets(<<"S1">>, <<"B1", "B2">>, <<"V1">>),
     Targets(<<"S1">>, <<>>, <<>>)}

Timelines == {3}
NewDeadlines == {NoDate, 1, 2, 4}

Range(seq) == {seq[i] : i \in 1..Len(seq)}

NoRequest == [status |-> "none"]

Accepted(status) == status \in {200, 201}

\* what the observer keeps of a call: its response and the request it addressed as
\* it was before the call; of an accepted call also the request's id and the caller
Call(op, action, id, user, response, pre, preCount) ==
    [op |-> op, action |-> action,
     id |-> IF Accepted(response.status) THEN id ELSE 0,
     user |-> IF Accepted(response.status) THEN user._id ELSE NoId,
     status |-> response.status, error |-> response.error,
     pre |-> pre, preCount |-> preCount]

\* the requests made by POST (a clone's history starts with 'forwarded')
Created(db) == {i \in 1..Len(db) : db[i].history[1].action = "created"}

RECURSIVE Steps(_)
Steps(db) == IF db = <<>> THEN 0 ELSE Len(Head(db).history) + Steps(Tail(db))

\* the model's cap on the collection
WithinBounds(db) == Steps(db) <= MaxSteps

----------------------------------------------------------------------------
(* The state machine *)

Init ==
    /\ users \in Directories
    /\ templates \in TemplateSets
    /\ requests = <<>>
    /\ visits = <<>>
    /\ legacy = <<>>
    /\ faults = 0
    /\ pending = <<>>
    /\ last = [op |-> "none", action |-> "none", id |-> 0, user |-> NoId,
               status |-> 0, error |-> "", pre |-> NoRequest, preCount |-> 0]

\* the database calls of a run one of which throws (thrown), or none of which does
FaultPoints(calls, thrown) == IF thrown THEN 1..calls ELSE {0}

\* one run of POST.  PATCH reads and writes the addressed request alone (and
\* appends its clones), so the model follows the family of one POSTed request:
\* the request, and the clones fan-out makes of it
CreateRun(thrown) ==
    /\ Created(requests) = {}
    /\ \E user \in Range(users), targets \in TargetChoices, timeline \in Timelines :
         LET r0 == POST(requests, users, user, targets, timeline, 0)
         IN  \E fault \in FaultPoints(r0.calls, thrown) :
                 LET r == POST(requests, users, user, targets, timeline, fault)
                 IN  /\ WithinBounds(r.db)
                     /\ requests' = r.db
                     /\ last' = Call("POST", "create", Len(r.db), user, r,
                                     NoRequest, Len(requests))

\* one run of PATCH
PatchRun(action, Data, Deadlines, thrown) ==
    \E user \in Range(users), id \in 1..Len(requests),
       data \in Data, newDeadline \in Deadlines :
        LET r0 == PATCH(requests, users, templates, user, id, action, data, newDeadline, 0)
        IN  \E fault \in FaultPoints(r0.calls, thrown) :
                LET r == PATCH(requests, users, templates, user, id, action, data,
                               newDeadline, fault)
                IN  /\ WithinBounds(r.db)
                    /\ requests' = r.db
                    /\ last' = Call("PATCH", action, id, user, r, requests[id],
                                    Len(requests))

\* the database answers every call of the run
Healthy == UNCHANGED <<users, templates, legacy, visits, faults, pending>>

\* one database call of the run throws
Faulty ==
    /\ faults < MaxFaults
    /\ faults' = faults + 1
    /\ UNCHANGED <<users, templates, legacy, visits, pending>>

CreateRequest == CreateRun(FALSE) /\ Healthy
ApproveRequest == PatchRun("approve", {FALSE}, NewDeadlines, FALSE) /\ Healthy
RejectRequest == PatchRun("reject", {FALSE}, {NoDate}, FALSE) /\ Healthy
SubmitRequest == PatchRun("submit", BOOLEAN, {NoDate}, FALSE) /\ Healthy

CreateFault == CreateRun(TRUE) /\ Faulty
ApproveFault == PatchRun("approve", {FALSE}, NewDeadlines, TRUE) /\ Faulty
RejectFault == PatchRun("reject", {FALSE}, {NoDate}, TRUE) /\ Faulty
SubmitFault == PatchRun("submit", BOOLEAN, {NoDate}, TRUE) /\ Faulty

Next ==
    \/ CreateRequest
    \/ ApproveRequest
    \/ RejectRequest
    \/ SubmitRequest

NextFault ==
    \/ Next
    \/ CreateFault
    \/ ApproveFault
    \/ RejectFault
    \/ SubmitFault

\* the engine over a database that answers
Spec == Init /\ [][Next]_vars

\* the faults are followed where the template of (S1, V1) is active
InitFault == Init /\ templates = ActiveTemplates

\* the engine over a database whose calls may throw
SpecFault == InitFault /\ [][NextFault]_vars

\* the runs overlap where the template of (S1, V1) is active
InitRace == Init /\ templates = ActiveTemplates

\* a sequence without its k-th element
Without(seq, k) == SubSeq(seq, 1, k - 1) \o SubSeq(seq, k + 1, Len(seq))

\* a PATCH is called and its findById returns: a run the workflow it read refuses
\* answers at once, any other run goes on with that workflow in hand
BeginPatch(action, Data, Deadlines) ==
    /\ Len(pending) < MaxPending
    /\ Steps(requests) + Len(pending) < MaxSteps
    /\ \E user \in Range(users), id \in 1..Len(requests),
          data \in Data, newDeadline \in Deadlines :
            LET r == PATCH(requests, users, templates, user, id, action, data,
                           newDeadline, 0)
            IN  IF r.status = 200
                THEN /\ pending' = Append(pending,
                            [user |-> user, id |-> id, action |-> action, data |-> data,
                             newDeadline |-> newDeadline, workflow |-> requests[id]])
                     /\ UNCHANGED <<requests, last>>
                ELSE /\ last' = Call("PATCH", action, id, user, r, requests[id],
                                     Len(requests))
                     /\ UNCHANGED <<requests, pending>>
    /\ UNCHANGED <<users, templates, legacy, visits, faults>>

BeginApprove == BeginPatch("approve", {FALSE}, {NoDate})
BeginReject == BeginPatch("reject", {FALSE}, {NoDate})
BeginSubmit == BeginPatch("submit", BOOLEAN, {NoDate})

\* a run in flight goes on from the workflow it read to its write
FinishPatch ==
    /\ \E k \in 1..Len(pending) :
        LET p == pending[k]
            r == Transition(requests, users, templates, p.user, p.id, p.workflow,
                            p.action, p.data, p.newDeadline, 0)
        IN  /\ WithinBounds(r.db)
            /\ requests' = r.db
            /\ pending' = Without(pending, k)
            /\ last' = Call("PATCH", p.action, p.id, p.user, r, p.workflow, Len(requests))
    /\ UNCHANGED <<users, templates, legacy, visits, faults>>

NextRace ==
    \/ CreateRequest
    \/ BeginApprove
    \/ BeginReject
    \/ BeginSubmit
    \/ FinishPatch

\* the engine with PATCH runs that overlap
SpecRace == InitRace /\ [][NextRace]_vars

\* the role names a user may hold: the hierarchy's and one outside it
RoleNames == Range(HIERARCHY_CHAIN) \cup {"Super Admin"}

\* a role with the scope its rank has
ScopedRole(r) ==
    IF r \in {"PMO", "CEO NITI", "Super Admin"} THEN Role(r, Null, Null)
    ELSE IF r \in {"State Advisor", "State YP"} THEN Role(r, "S1", Null)
    ELSE Role(r, "S1", "B1")

\* the lists of up to MaxRoles different roles, in every stored order
RoleLists ==
    {rs \in UNION {[1..n -> RoleNames] : n \in 0..MaxRoles} :
        \A i, j \in 1..Len(rs) : rs[i] = rs[j] => i = j}

\* the directories of one user
RoleDirectories ==
    {<<User(1, [k \in 1..Len(rs) |-> ScopedRole(rs[k])])>> : rs \in RoleLists}

InitRoles ==
    /\ users \in RoleDirectories
    /\ templates \in TemplateSets
    /\ requests = <<>>
    /\ visits = <<>>
    /\ legacy = <<>>
    /\ faults = 0
    /\ pending = <<>>
    /\ last = [op |-> "none", action |-> "none", id |-> 0, user |-> NoId,
               status |-> 0, error |-> "", pre |-> NoRequest, preCount |-> 0]

\* the hierarchy role of a user is computed
ResolveRole ==
    /\ \E user \in Range(users) :
        last' = [op |-> "role", action |-> getUserHierarchyRole(user), id |-> 0,
                 user |-> user._id, status |-> 0, error |-> "", pre |-> NoRequest,
                 preCount |-> Len(requests)]
    /\ UNCHANGED <<users, templates, legacy, requests, visits, faults, pending>>

NextRoles ==
    \/ ResolveRole
    \/ Next

\* the engine used by one user who holds any list of roles
SpecRoles == InitRoles /\ [][NextRoles]_vars

----------------------------------------------------------------------------
(* PM visits: src/src/app/api/dynamic-forms/templates/route.ts, from line 325 *)

Max(a, b) == IF a >= b THEN a ELSE b

\* the roles of the cascade, in the order of the ledger
CascadeRoles ==
    <<"Division YP", "State Division HOD", "State YP", "State Advisor", "CEO NITI", "PMO">>

\* a faulty variant: the share of dayDiff alone, without the floor
deadlineAllocations_NoFloor(role, dayDiff) ==
    CASE role = "PMO" -> 0
      [] role = "CEO NITI" -> dayDiff * 20
      [] role = "State Advisor" -> dayDiff * 40
      [] role = "State YP" -> dayDiff * 60
      [] role = "State Division HOD" -> dayDiff * 80
      [] role = "Division YP" -> dayDiff * 95

\* deadlineAllocations[role], in hundredths of a day; dayDiff in days
deadlineAllocations(role, dayDiff) ==
    CASE role = "PMO" -> 0
      [] role = "CEO NITI" -> Max(2 * 100, dayDiff * 20)
      [] role = "State Advisor" -> Max(5 * 100, dayDiff * 40)
      [] role = "State YP" -> Max(8 * 100, dayDiff * 60)
      [] role = "State Division HOD" -> Max(12 * 100, dayDiff * 80)
      [] role = "Division YP" -> Max(15 * 100, dayDiff * 95)

\* dates are days; a deadline of the ledger is in hundredths of a day
calculateCascadeDeadlines(visitDate, finalDeadline) ==
    LET dayDiff == finalDeadline - visitDate
    IN  [k \in 1..Len(CascadeRoles) |->
            [role |-> CascadeRoles[k],
             deadline |-> finalDeadline * 100 - deadlineAllocations(CascadeRoles[k], dayDiff),
             status |-> "pending"]]

\* the query findUsersForRoles builds for a role
VisitRoleQueryMatches(u, role, state) ==
    IF role = "PMO" \/ role = "CEO NITI"
    THEN HasRole(u, role)
    ELSE HasRole(u, role) /\ HasState(u, state)

\* userAssignments[role] = user?._id || null, user the first match of User.findOne
findUsersForRoles(dir, state) ==
    [role \in Range(HIERARCHY_CHAIN) |->
        IF \E i \in 1..Len(dir) : VisitRoleQueryMatches(dir[i], role, state)
        THEN dir[CHOOSE i \in 1..Len(dir) :
                    /\ VisitRoleQueryMatches(dir[i], role, state)
                    /\ \A j \in 1..(i - 1) : ~VisitRoleQueryMatches(dir[j], role, state)]._id
        ELSE NoId]

\* an entry of a visit's auditLog
AuditEntry(action, user, role) == [action |-> action, userId |-> user._id, role |-> role]

\* a faulty variant: a final deadline on the day of the visit passes
DeadlineNotBeforeVisit_SameDayPasses(visitDate, finalDeadline) == finalDeadline > visitDate

\* the date test of POST: finalDeadline >= visitDate
DeadlineNotBeforeVisit(visitDate, finalDeadline) == finalDeadline >= visitDate

\* POST of the PM visit route
VisitPOST(db, dir, user, state, visitDate, finalDeadline) ==
    IF ~requireRoles(user, {"PMO"})
    THEN Response(403, "Forbidden: Only PMO can create PM visits", db, 0)
    ELSE IF DeadlineNotBeforeVisit(visitDate, finalDeadline)
    THEN Response(400, "Final deadline must be at least 1 day before the visit date", db, 0)
    ELSE
    LET cascadeDeadlines == calculateCascadeDeadlines(visitDate, finalDeadline)
        userAssignments == findUsersForRoles(dir, state)
        deadlinesWithAssignments ==
            [k \in 1..Len(cascadeDeadlines) |->
                [role |-> cascadeDeadlines[k].role,
                 deadline |-> cascadeDeadlines[k].deadline,
                 status |-> cascadeDeadlines[k].status,
                 assignedUserId |-> userAssignments[cascadeDeadlines[k].role]]]
        pmVisit == [visitDate |-> visitDate, state |-> state,
                    finalDeadline |-> finalDeadline,
                    deadlines |-> deadlinesWithAssignments,
                    createdBy |-> user._id, status |-> "draft",
                    auditLog |-> <<AuditEntry("created", user, "PMO")>>]
    IN  Response(201, "", Append(db, pmVisit), 7)

\* a faulty variant: a cancel puts the visit back to draft
Cancelled_BackToDraft == "draft"

\* the status a cancel writes
Cancelled == "cancelled"

\* a faulty variant: every user passes for PMO
IsPMO_Anybody(user) == TRUE

\* userRoles.includes('PMO')
IsPMO(user) == HasRole(user, "PMO")

\* a faulty variant: the audit entry replaces the audit trail
VisitUpdate_AuditReplaced(db, id, status, auditEntry) ==
    Response(200, "",
             [db EXCEPT ![id] = [@ EXCEPT !.status = status,
                                          !.auditLog = <<auditEntry>>]], 2)

\* PMVisit.findByIdAndUpdate(id, updateData): $set status, $push auditLog
VisitUpdate(db, id, status, auditEntry) ==
    Response(200, "",
             [db EXCEPT ![id] = [@ EXCEPT !.status = status,
                                          !.auditLog = Append(@, auditEntry)]], 2)

\* PATCH of the PM visit route, over the visit its findById returned
VisitTransition(db, user, id, pmVisit, action) ==
    LET auditEntry == AuditEntry(action, user, First(user.roles).role)
    IN  IF action = "activate" /\ ~IsPMO(user)
        THEN Response(403, "Only PMO can activate visits", db, 1)
        ELSE IF action = "complete" /\ ~IsPMO(user)
        THEN Response(403, "Only PMO can complete visits", db, 1)
        ELSE CASE action = "activate" ->
                    IF pmVisit.status # "draft"
                    THEN Response(400, "Can only activate draft visits", db, 1)
                    ELSE VisitUpdate(db, id, "active", auditEntry)
               [] action = "complete" ->
                    IF pmVisit.status # "active"
                    THEN Response(400, "Can only complete active visits", db, 1)
                    ELSE VisitUpdate(db, id, "completed", auditEntry)
               [] action = "cancel" ->
                    IF pmVisit.status = "completed"
                    THEN Response(400, "Cannot cancel completed visits", db, 1)
                    ELSE VisitUpdate(db, id, Cancelled, auditEntry)
               [] OTHER -> Response(400, "Invalid action", db, 1)

VisitPATCH(db, user, id, action) ==
    IF id \notin 1..Len(db)
    THEN Response(404, "PM Visit not found", db, 1)
    ELSE VisitTransition(db, user, id, db[id], action)

\* the visit dates a POST may bring: <<visitDate, finalDeadline>>, in days
VisitDates == {<<30, 5>>, <<10, 10>>, <<5, 8>>}

VisitStates == {"S1"}

RECURSIVE AuditEntries(_)
AuditEntries(db) == IF db = <<>> THEN 0 ELSE Len(Head(db).auditLog) + AuditEntries(Tail(db))

\* the model's cap on the PMVisit collection
VisitsWithinBounds(db) == Len(db) <= MaxVisits /\ AuditEntries(db) <= MaxAudit

CreateVisit ==
    /\ \E user \in Range(users), state \in VisitStates, dates \in VisitDates :
        LET r == VisitPOST(visits, users, user, state, dates[1], dates[2])
        IN  /\ VisitsWithinBounds(r.db)
            /\ visits' = r.db
            /\ last' = Call("VISIT_POST", "create", Len(r.db), user, r, NoRequest,
                            Len(visits))
    /\ UNCHANGED <<users, templates, legacy, requests, faults, pending>>

\* one run of the PM visit PATCH
VisitRun(action) ==
    /\ \E user \in Range(users), id \in 1..Len(visits) :
        LET r == VisitPATCH(visits, user, id, action)
        IN  /\ VisitsWithinBounds(r.db)
            /\ visits' = r.db
            /\ last' = Call("VISIT_PATCH", action, id, user, r, visits[id], Len(visits))
    /\ UNCHANGED <<users, templates, legacy, requests, faults, pending>>

ActivateVisit == VisitRun("activate")
CompleteVisit == VisitRun("complete")
CancelVisit == VisitRun("cancel")

NextVisit ==
    \/ CreateVisit
    \/ ActivateVisit
    \/ CompleteVisit
    \/ CancelVisit

\* the directories the visits are followed in: each has one PMO, roles nobody
\* holds and a user with two roles
VisitDirectories == {DirMulti, DirGap}

\* the visits are followed where the template of (S1, V1) is active
InitVisit == Init /\ templates = ActiveTemplates /\ users \in VisitDirectories

\* the PM visit handlers, their calls one after the other
SpecVisit == InitVisit /\ [][NextVisit]_vars

\* a PM visit PATCH is called and its findById returns: a run the visit it read
\* refuses answers at once, any other run goes on with that visit in hand
BeginVisitPatch(action) ==
    /\ Len(pending) < MaxPending
    /\ AuditEntries(visits) + Len(pending) < MaxAudit
    /\ \E user \in Range(users), id \in 1..Len(visits) :
            LET r == VisitPATCH(visits, user, id, action)
            IN  IF r.status = 200
                THEN /\ pending' = Append(pending,
                            [user |-> user, id |-> id, action |-> action,
                             pmVisit |-> visits[id]])
                     /\ UNCHANGED <<visits, last>>
                ELSE /\ last' = Call("VISIT_PATCH", action, id, user, r, visits[id],
                                     Len(visits))
                     /\ UNCHANGED <<visits, pending>>
    /\ UNCHANGED <<users, templates, legacy, requests, faults>>

BeginActivate == BeginVisitPatch("activate")
BeginComplete == BeginVisitPatch("complete")
BeginCancel == BeginVisitPatch("cancel")

\* a run in flight goes on from the visit it read to its write
FinishVisitPatch ==
    /\ \E k \in 1..Len(pending) :
        LET p == pending[k]
            r == VisitTransition(visits, p.user, p.id, p.pmVisit, p.action)
        IN  /\ VisitsWithinBounds(r.db)
            /\ visits' = r.db
            /\ pending' = Without(pending, k)
            /\ last' = Call("VISIT_PATCH", p.action, p.id, p.user, r, p.pmVisit, Len(visits))
    /\ UNCHANGED <<users, templates, legacy, requests, faults>>

NextVisitRace ==
    \/ CreateVisit
    \/ BeginActivate
    \/ BeginComplete
    \/ BeginCancel
    \/ FinishVisitPatch

\* the PM visit handlers with PATCH runs that overlap
SpecVisitRace == InitVisit /\ [][NextVisitRace]_vars

\* the dates the cascade is computed for: every <<visitDate, finalDeadline>> of
\* whole days up to MaxDay
CascadeDates == {<<visitDate, finalDeadline>> : visitDate \in 0..MaxDay, finalDeadline \in 0..MaxDay}

CascadeDirectories == {DirGap, DirCross}

\* the first POST of a PM visit, with any dates
ScheduleVisit ==
    /\ visits = <<>>
    /\ \E user \in Range(users), state \in VisitStates, dates \in CascadeDates :
        LET r == VisitPOST(visits, users, user, state, dates[1], dates[2])
        IN  /\ visits' = r.db
            /\ last' = Call("VISIT_POST", "create", Len(r.db), user, r, NoRequest,
                            Len(visits))
    /\ UNCHANGED <<users, templates, legacy, requests, faults, pending>>

InitCascade ==
    /\ users \in CascadeDirectories
    /\ templates = ActiveTemplates
    /\ requests = <<>>
    /\ visits = <<>>
    /\ legacy = <<>>
    /\ faults = 0
    /\ pending = <<>>
    /\ last = [op |-> "none", action |-> "none", id |-> 0, user |-> NoId,
               status |-> 0, error |-> "", pre |-> NoRequest, preCount |-> 0]

\* the scopes a holder is looked up in
ScopeStates == {"S1", "S2"}
ScopeBranches == {Null, "B1", "B2"}

\* findUserForRole is called for a role and a scope
ResolveHolder ==
    /\ visits = <<>>
    /\ \E role \in Range(HIERARCHY_CHAIN), state \in ScopeStates, branch \in ScopeBranches :
        last' = [op |-> "resolve", action |-> role,
                 id |-> findUserForRole(users, role, state, branch)._id,
                 user |-> NoId, status |-> 0, error |-> "",
                 pre |-> [status |-> "none", state |-> state, branch |-> branch],
                 preCount |-> 0]
    /\ UNCHANGED <<users, templates, legacy, requests, visits, faults, pending>>

NextCascade ==
    \/ ScheduleVisit
    \/ ResolveHolder

\* the deadline cascade of a first visit, over all dates, and the lookups of holders
SpecCascade == InitCascade /\ [][NextCascade]_vars

----------------------------------------------------------------------------
(* GET: the lists of workflows and of PM visits *)

\* user.roles.find(r => r.role === 'State Advisor')?.state
AdvisorState(user) ==
    IF HasRole(user, "State Advisor")
    THEN user.roles[CHOOSE k \in 1..Len(user.roles) :
                /\ user.roles[k].role = "State Advisor"
                /\ \A j \in 1..(k - 1) : user.roles[j].role # "State Advisor"].state
    ELSE Null

\* buildRoleBasedQuery: the conditions of the query, by field
buildRoleBasedQuery(user, userRole) ==
    CASE userRole \in {"PMO", "CEO NITI"} -> NoUpdate
      [] userRole = "State Advisor" ->
            IF AdvisorState(user) # Null
            THEN [targets_states |-> AdvisorState(user)]
            ELSE [targets_states_array |-> <<>>]
      [] OTHER -> [currentAssigneeId |-> user._id]

\* a condition of a query given as a URL parameter, when the parameter is there
Param(field, value) == IF value # Null THEN field :> value ELSE NoUpdate

\* EnhancedWorkflowRequest.find(query): a condition on an array field holds when
\* an element has the value or, the value being an array, when the field equals it
WorkflowMatches(doc, query) ==
    /\ "targets_states" \in DOMAIN query
            => query.targets_states \in Range(doc.targets.states)
    /\ "targets_states_array" \in DOMAIN query
            => query.targets_states_array = doc.targets.states
    /\ "currentAssigneeId" \in DOMAIN query => doc.currentAssigneeId = query.currentAssigneeId
    /\ "status" \in DOMAIN query => doc.status = query.status

\* GET of the workflow route without id: the ids of the workflows listed
GET(db, user, status, state) ==
    LET userRole == getUserHierarchyRole(user)
        query == Param("targets_states", state) @@ Param("status", status)
                    @@ buildRoleBasedQuery(user, userRole)
    IN  IF userRole = Null
        THEN [status |-> 403, error |-> "Invalid user role", items |-> {}]
        ELSE [status |-> 200, error |-> "",
              items |-> {i \in 1..Len(db) : WorkflowMatches(db[i], query)}]

\* the role filter of the PM visit list
VisitRoleQuery(user) ==
    IF HasRole(user, "PMO") THEN NoUpdate
    ELSE IF HasRole(user, "CEO NITI") THEN NoUpdate
    ELSE IF HasRole(user, "State Advisor")
    THEN Param("state", AdvisorState(user))
    ELSE [deadlines_assignedUserId |-> user._id]

\* PMVisit.find(query)
VisitMatches(doc, query) ==
    /\ "state" \in DOMAIN query => doc.state = query.state
    /\ "status" \in DOMAIN query => doc.status = query.status
    /\ "deadlines_assignedUserId" \in DOMAIN query
            => \E k \in 1..Len(doc.deadlines) :
                    doc.deadlines[k].assignedUserId = query.deadlines_assignedUserId

\* GET of the PM visit route without id: the ids of the visits listed
VisitGET(db, user, state, status) ==
    LET query == Param("state", state) @@ Param("status", status) @@ VisitRoleQuery(user)
    IN  [status |-> 200, error |-> "",
         items |-> {i \in 1..Len(db) : VisitMatches(db[i], query)}]

\* the targets of the requests that are listed: one state each
ListTargets ==
    {Targets(<<"S1">>, <<"B1">>, <<"V1">>), Targets(<<"S2">>, <<"B1">>, <<"V1">>)}

\* the filters a list is asked with: none, or a value
StateFilters == {Null} \cup ScopeStates
StatusFilters == {Null, "in-progress"}

\* what the observer keeps of a list: who asked, with which state filter, and the
\* ids listed
Listing(op, user, state, r) ==
    [op |-> op, action |-> state, id |-> 0, user |-> user._id, status |-> r.status,
     error |-> r.error, pre |-> [status |-> "none", items |-> r.items], preCount |-> 0]

\* a request is created, for S1 or for S2
FileRequest ==
    /\ Len(requests) < MaxListed
    /\ \E user \in Range(users), targets \in ListTargets, timeline \in Timelines :
        LET r == POST(requests, users, user, targets, timeline, 0)
        IN  /\ requests' = r.db
            /\ last' = Call("POST", "create", Len(r.db), user, r, NoRequest, Len(requests))
    /\ UNCHANGED <<users, templates, legacy, visits, faults, pending>>

\* a PM visit is created, for S1 or for S2
FileVisit ==
    /\ Len(visits) < MaxVisits
    /\ \E user \in Range(users), state \in ScopeStates :
        LET r == VisitPOST(visits, users, user, state, 30, 5)
        IN  /\ visits' = r.db
            /\ last' = Call("VISIT_POST", "create", Len(r.db), user, r, NoRequest,
                            Len(visits))
    /\ UNCHANGED <<users, templates, legacy, requests, faults, pending>>

ListRequests ==
    /\ \E user \in Range(users), status \in StatusFilters, state \in StateFilters :
        last' = Listing("GET", user, state, GET(requests, user, status, state))
    /\ UNCHANGED <<users, templates, legacy, requests, visits, faults, pending>>

ListVisits ==
    /\ \E user \in Range(users), status \in StatusFilters, state \in StateFilters :
        last' = Listing("VISIT_GET", user, state, VisitGET(visits, user, state, status))
    /\ UNCHANGED <<users, templates, legacy, requests, visits, faults, pending>>

NextList ==
    \/ FileRequest
    \/ FileVisit
    \/ ListRequests
    \/ ListVisits

InitList == Init /\ users = DirSeed /\ templates = ActiveTemplates

\* requests and visits of two states, and the lists made of them
SpecList == InitList /\ [][NextList]_vars

----------------------------------------------------------------------------
(* Users: src/src/app/api/users/enhanced/route.ts, on the User collection *)

\* a role assignment as the route stores it
normalizedRoles(roles) ==
    [k \in 1..Len(roles) |->
        [role |-> IF roles[k].role = "Division HOD" THEN "State Division HOD"
                  ELSE roles[k].role,
         state |-> roles[k].state, branch |-> roles[k].branch]]

\* the uniqueness query of a role assignment: conditions on the roles array
UniquenessQueryMatches(u, r) ==
    /\ HasRole(u, r.role)
    /\ r.role \in {"State Advisor", "State YP"} => HasState(u, r.state)
    /\ r.role \in {"State Division HOD", "Division YP"}
            => HasState(u, r.state) /\ HasBranch(u, r.branch)

\* User.findOne(query): the first matching document, null when none
RoleHolder(dir, r) ==
    IF \E i \in 1..Len(dir) : UniquenessQueryMatches(dir[i], r)
    THEN dir[CHOOSE i \in 1..Len(dir) :
                /\ UniquenessQueryMatches(dir[i], r)
                /\ \A j \in 1..(i - 1) : ~UniquenessQueryMatches(dir[j], r)]
    ELSE NoUser

\* POST of the users route
UserPOST(dir, caller, roles) ==
    IF ~requireRoles(caller, {"Super Admin"})
    THEN Response(403, "Forbidden", dir, 0)
    ELSE IF \E k \in 1..Len(roles) : RoleHolder(dir, normalizedRoles(roles)[k]) # NoUser
    THEN Response(409, "Role already assigned", dir, Len(roles))
    ELSE Response(201, "", Append(dir, User(Len(dir) + 1, normalizedRoles(roles))),
                  Len(roles) + 1)

\* PATCH of the users route with roles in the body
UserPATCH(dir, caller, id, roles) ==
    IF ~requireRoles(caller, {"Super Admin"})
    THEN Response(403, "Forbidden", dir, 0)
    ELSE IF \E k \in 1..Len(roles) :
                LET holder == RoleHolder(dir, normalizedRoles(roles)[k])
                IN  holder # NoUser /\ holder._id # id
    THEN Response(409, "Role already assigned", dir, Len(roles))
    ELSE IF id \notin 1..Len(dir)
    THEN Response(404, "User not found", dir, Len(roles) + 1)
    ELSE Response(200, "", [dir EXCEPT ![id].roles = normalizedRoles(roles)],
                  Len(roles) + 1)

\* the role assignments a body may carry, and the lists of up to two of them
RoleOptions ==
    {Role("State Advisor", "S1", Null), Role("State Advisor", "S2", Null),
     Role("Division YP", "S1", "B1")}

RoleBodies ==
    {<<>>} \cup {<<r>> : r \in RoleOptions}
           \cup {<<pair[1], pair[2]>> :
                    pair \in {x \in RoleOptions \X RoleOptions : x[1] # x[2]}}

\* what the observer keeps of a call of the users route: the collection it found
UserCall(op, id, caller, r, dir) ==
    [op |-> op, action |-> "roles", id |-> id, user |-> caller._id, status |-> r.status,
     error |-> r.error, pre |-> [status |-> "none", users |-> dir], preCount |-> Len(dir)]

CreateUser ==
    /\ Len(users) < MaxUsers
    /\ \E caller \in Range(users), roles \in RoleBodies :
        LET r == UserPOST(users, caller, roles)
        IN  /\ users' = r.db
            /\ last' = UserCall("USER_POST", Len(r.db), caller, r, users)
    /\ UNCHANGED <<templates, legacy, requests, visits, faults, pending>>

UpdateUserRoles ==
    /\ \E caller \in Range(users), id \in 1..Len(users), roles \in RoleBodies :
        LET r == UserPATCH(users, caller, id, roles)
        IN  /\ users' = r.db
            /\ last' = UserCall("USER_PATCH", id, caller, r, users)
    /\ UNCHANGED <<templates, legacy, requests, visits, faults, pending>>

NextUsers ==
    \/ CreateUser
    \/ UpdateUserRoles

\* the collection holds the Super Admin alone
InitUsers ==
    /\ users = <<User(1, <<Role("Super Admin", Null, Null)>>)>>
    /\ templates = ActiveTemplates
    /\ requests = <<>>
    /\ visits = <<>>
    /\ legacy = <<>>
    /\ faults = 0
    /\ pending = <<>>
    /\ last = [op |-> "none", action |-> "none", id |-> 0, user |-> NoId,
               status |-> 0, error |-> "", pre |-> NoRequest, preCount |-> 0]

\* users are created and their roles updated
SpecUsers == InitUsers /\ [][NextUsers]_vars

\* ---------------------------------------------------------------------------
\* The legacy route /api/workflows
\* ---------------------------------------------------------------------------

\* the status a WorkflowRequest is created with (models/request.ts is not part
\* of the sources; the route overwrites it as soon as an assignee is found)
LegacyDefaultStatus == "open"

APPROVAL_CHAIN ==
    <<"Division YP", "Division HOD", "State YP", "State Advisor", "CEO NITI">>

\* roles: { $elemMatch: { role, state?, branch? } }: one element of the array
\* satisfies every condition of the query
ElemMatch(u, role, state, branch) ==
    \E k \in 1..Len(u.roles) :
        /\ u.roles[k].role = role
        /\ state # Null => u.roles[k].state = state
        /\ branch # Null => u.roles[k].branch = branch

\* User.findOne({ roles: { $elemMatch: ... } }): the first user in insertion order
LegacyFindOne(dir, role, state, branch) ==
    LET hits == {i \in 1..Len(dir) : ElemMatch(dir[i], role, state, branch)}
    IN  IF hits = {} THEN NoUser
        ELSE dir[CHOOSE i \in hits : \A j \in hits : i <= j]

LegacyEntry(action, user) == [action |-> action, userId |-> user._id]

LegacyDoc(createdBy, status, targets, assignee, history) ==
    [createdBy |-> createdBy, status |-> status, targets |-> targets,
     currentAssigneeId |-> assignee, history |-> history]

\* POST /api/workflows (the body is valid and the timeline far enough ahead)
LegacyPOST(db, dir, user, targets) ==
    IF ~requireRoles(user, {"PMO Viewer", "CEO NITI"})
    THEN Response(403, "Forbidden", db, 0)
    ELSE
    LET targetState == First(targets.states)
        targetBranch == First(targets.branches)
        initialRole == IF targetBranch # Null THEN "Division YP" ELSE "State YP"
        initialAssignee == LegacyFindOne(dir, initialRole, targetState, targetBranch)
        fallbackRole == IF targetState # Null THEN "State Advisor" ELSE "CEO NITI"
        fallbackAssignee == LegacyFindOne(dir, fallbackRole, targetState, Null)
        assignee == IF initialAssignee # NoUser THEN initialAssignee._id
                    ELSE IF fallbackAssignee # NoUser THEN fallbackAssignee._id
                    ELSE NoId
        created == <<LegacyEntry("created", user)>>
        doc == IF assignee # NoId
               THEN LegacyDoc(user._id, "in-progress", targets, assignee,
                              Append(created, LegacyEntry("forwarded", user)))
               ELSE LegacyDoc(user._id, LegacyDefaultStatus, targets, NoId, created)
    IN  Response(200, "", Append(db, doc), 0)

\* APPROVAL_CHAIN.find((r) => userRoles.includes(r)): 0 when the user holds none
LegacyActorIndex(user) ==
    LET held == {i \in 1..Len(APPROVAL_CHAIN) : HasRole(user, APPROVAL_CHAIN[i])}
    IN  IF held = {} THEN 0 ELSE CHOOSE i \in held : \A j \in held : i <= j

\* the assignee check of the legacy PATCH
LegacyNotCurrentAssignee(doc, user) ==
    doc.currentAssigneeId # NoId /\ doc.currentAssigneeId # user._id

\* PATCH /api/workflows with action approve or reject
LegacyPATCH(db, dir, user, id, action) ==
    IF id \notin 1..Len(db) THEN Response(404, "Not found", db, 0)
    ELSE
    LET doc == db[id]
    IN  IF LegacyNotCurrentAssignee(doc, user)
        THEN Response(403, "Forbidden: not current assignee", db, 0)
        ELSE
        LET pushed == Append(doc.history, LegacyEntry(action, user))
            targetState == First(doc.targets.states)
            targetBranch == First(doc.targets.branches)
            idx == LegacyActorIndex(user)
            toRole == IF action = "approve"
                      THEN IF idx >= 1 /\ idx < Len(APPROVAL_CHAIN)
                           THEN APPROVAL_CHAIN[idx + 1] ELSE Null
                      ELSE IF idx > 1 THEN APPROVAL_CHAIN[idx - 1] ELSE Null
            found == IF toRole = Null THEN NoUser
                     ELSE LegacyFindOne(dir, toRole, targetState, targetBranch)
            ended == IF action = "approve" THEN "approved" ELSE "rejected"
            saved == IF found # NoUser
                     THEN [doc EXCEPT !.currentAssigneeId = found._id,
                                      !.status = "in-progress",
                                      !.history = Append(pushed,
                                                         LegacyEntry("forwarded", user))]
                     ELSE [doc EXCEPT !.currentAssigneeId = NoId,
                                      !.status = ended,
                                      !.history = pushed]
        IN  Response(200, "", [db EXCEPT ![id] = saved], 0)

\* a directory whose roles carry the names of the legacy chain
DirLegacy ==
    <<User(1, <<Role("CEO NITI", Null, Null)>>),
      User(2, <<Role("State Advisor", "S1", Null)>>),
      User(3, <<Role("State YP", "S1", Null)>>),
      User(4, <<Role("Division HOD", "S1", "B1")>>),
      User(5, <<Role("Division YP", "S1", "B1")>>),
      User(6, <<Role("PMO Viewer", Null, Null)>>)>>

LegacyDirectories == {DirLegacy, DirGap}

LegacyTargets ==
    {Targets(<<"S1">>, <<"B1">>, <<"V1">>),
     Targets(<<"S1">>, <<>>, <<>>),
     Targets(<<"S2">>, <<"B2">>, <<>>)}

LegacyCreate ==
    /\ Len(legacy) < MaxLegacy
    /\ \E user \in Range(users), targets \in LegacyTargets :
        LET r == LegacyPOST(legacy, users, user, targets)
        IN  /\ Steps(r.db) <= MaxLegacySteps
            /\ legacy' = r.db
            /\ last' = Call("LEGACY_POST", "create", Len(r.db), user, r, NoRequest,
                            Len(legacy))
    /\ UNCHANGED <<users, templates, requests, visits, faults, pending>>

LegacyRun(action) ==
    /\ \E user \in Range(users), id \in 1..Len(legacy) :
        LET r == LegacyPATCH(legacy, users, user, id, action)
        IN  /\ Steps(r.db) <= MaxLegacySteps
            /\ legacy' = r.db
            /\ last' = Call("LEGACY_PATCH", action, id, user, r, legacy[id],
                            Len(legacy))
    /\ UNCHANGED <<users, templates, requests, visits, faults, pending>>

LegacyApprove == LegacyRun("approve")
LegacyReject == LegacyRun("reject")

NextLegacy ==
    \/ LegacyCreate
    \/ LegacyApprove
    \/ LegacyReject

InitLegacy ==
    /\ users \in LegacyDirectories
    /\ templates = ActiveTemplates
    /\ requests = <<>>
    /\ visits = <<>>
    /\ legacy = <<>>
    /\ faults = 0
    /\ pending = <<>>
    /\ last = [op |-> "none", action |-> "none", id |-> 0, user |-> NoId,
               status |-> 0, error |-> "", pre |-> NoRequest, preCount |-> 0]

\* requests are created, approved and rejected through the legacy route
SpecLegacy == InitLegacy /\ [][NextLegacy]_vars

----------------------------------------------------------------------------
(* Vocabulary of the properties *)

\* the last call was a PATCH with this action and it was accepted
AcceptedPatch(action) ==
    last.op = "PATCH" /\ last.action = action /\ last.status = 200

\* the last call was a PATCH with this action and it was refused with this error
RefusedPatch(action, status, error) ==
    last.op = "PATCH" /\ last.action = action /\ last.status = status /\ last.error = error

\* the request the last accepted call addressed, as it is now
Now == requests[last.id]

\* the identity the directory resolves for a role at a request's target scope
ResolvedFor(req, role) ==
    findUserForRole(users, role, req.targets.states[1], First(req.targets.branches))._id

\* every input of a PATCH call that can be made in the current state
PatchInputs ==
    {[user |-> u, id |-> i, action |-> c[1], data |-> c[2], newDeadline |-> c[3]] :
        u \in Range(users), i \in 1..Len(requests),
        c \in {<<"approve", FALSE, nd>> : nd \in NewDeadlines}
              \cup {<<"reject", FALSE, NoDate>>}
              \cup {<<"submit", d, NoDate>> : d \in BOOLEAN}}

\* the answer of PATCH to an input, the database answering
Answer(in) ==
    PATCH(requests, users, templates, in.user, in.id, in.action, in.data, in.newDeadline, 0)

Closed(req) == req.status \in {"approved", "rejected"}

----------------------------------------------------------------------------
(* C1 - an accepted approve that forwards a request moves it to the role just
   below the stage it had, an accepted reject to the role just above it, and
   the assignee becomes the identity resolved for the new stage: for every
   actor, whatever roles the actor holds. *)
C1_StageFollowsCurrentStage ==
    /\ (AcceptedPatch("approve") /\ Now.status # "approved" /\ Now.currentAssigneeId # NoId)
        => /\ Now.currentStage = getNextRole(last.pre.currentStage)
           /\ Now.currentAssigneeId = ResolvedFor(Now, Now.currentStage)
    /\ AcceptedPatch("reject")
        => /\ Now.currentStage = getPreviousRole(last.pre.currentStage)
           /\ Now.currentAssigneeId = ResolvedFor(Now, Now.currentStage)

(* C2 - approve, reject and submit are accepted only from the current assignee:
   the caller of an accepted call is the request's assignee, and a call by any
   other identity (so every call on a request without assignee) is answered
   403 "Not current assignee" and leaves the collection as it was. *)
C2_OnlyAssigneeActs ==
    /\ (last.op = "PATCH" /\ Accepted(last.status))
        => (last.user = last.pre.currentAssigneeId /\ last.user # NoId)
    /\ \A in \in PatchInputs :
        in.user._id # requests[in.id].currentAssigneeId
            => /\ Answer(in).status = 403
               /\ Answer(in).error = "Not current assignee"
               /\ Answer(in).db = requests

\* a call on a request without assignee has been refused
C2_Witness ==
    /\ RefusedPatch("reject", 403, "Not current assignee")
    /\ last.pre.currentAssigneeId = NoId
    /\ requests[1] = last.pre

(* C3 - once a request is approved or rejected, every approve, reject or submit
   by any actor is refused (the refusal of a closed request is the assignee
   check's 403) and the collection, so the request with its status, stage,
   assignee, version, versionHistory, rollbackCount and history, stays as it
   was. *)
C3_ClosedIsFinal ==
    /\ (last.op = "PATCH" /\ Closed(last.pre))
        => (last.status = 403 /\ last.error = "Not current assignee")
    /\ \A in \in PatchInputs :
        Closed(requests[in.id])
            => /\ Answer(in).status = 403
               /\ Answer(in).db = requests

\* an approve on an approved request has been refused
C3_Witness ==
    /\ RefusedPatch("approve", 403, "Not current assignee")
    /\ last.pre.status = "approved"
    /\ \E i \in 1..Len(requests) : requests[i] = last.pre

(* C4 - rollbackCount never exceeds maxRollbackCount: a reject at the ceiling is
   refused, so a request is never rejected more than maxRollbackCount times. *)
C4_RollbackCeiling ==
    \A i \in 1..Len(requests) : requests[i].rollbackCount <= requests[i].maxRollbackCount

\* the last entry of a request's history
LastEntry(req) == req.history[Len(req.history)]

\* a request the State YP's approve has fanned out over its branches
FanOutParent(req) ==
    /\ Len(req.targets.branches) > 1
    /\ LastEntry(req).action = "approve"
    /\ LastEntry(req).userRole = "State YP"
    /\ LastEntry(req).toStage = req.currentStage

(* C5 as stated - in every reachable state a request has an assignee if and
   only if its status is in-progress, and an approved or rejected request has
   none. *)
C5_AssigneeIffInProgress ==
    \A i \in 1..Len(requests) :
        /\ requests[i].currentAssigneeId # NoId <=> requests[i].status = "in-progress"
        /\ Closed(requests[i]) => requests[i].currentAssigneeId = NoId

(* C5 - in every reachable state a request that has an assignee is in-progress,
   an approved or rejected request has none, and an in-progress request without
   assignee is a fan-out parent: a request of several branches whose last
   history entry is the State YP's approve that kept its stage. *)
C5_AssigneeImpliesInProgress ==
    \A i \in 1..Len(requests) :
        /\ requests[i].currentAssigneeId # NoId => requests[i].status = "in-progress"
        /\ Closed(requests[i]) => requests[i].currentAssigneeId = NoId
        /\ (requests[i].status = "in-progress" /\ requests[i].currentAssigneeId = NoId)
            => FanOutParent(requests[i])

\* a fan-out parent, an approved clone of it and a clone still in progress
C5_Witness ==
    /\ \E i \in 1..Len(requests) :
        /\ FanOutParent(requests[i])
        /\ requests[i].status = "in-progress"
        /\ requests[i].currentAssigneeId = NoId
    /\ \E i \in 1..Len(requests) :
        requests[i].status = "approved" /\ requests[i].currentAssigneeId = NoId
    /\ \E i \in 1..Len(requests) :
        requests[i].status = "in-progress" /\ requests[i].currentAssigneeId # NoId

(* C6 - when the assignee of a request at the State YP stage that targets n > 1
   branches approves it, n requests are added, the k-th for the k-th branch:
   stage State Division HOD, that branch alone as target, in-progress, assigned
   to the HOD resolved for the branch, a history of one forwarded entry; and
   the parent keeps its stage and its in-progress status and loses its
   assignee. *)
C6_FanOutOnePerBranch ==
    (/\ AcceptedPatch("approve")
     /\ last.pre.currentStage = "State YP"
     /\ Len(last.pre.targets.branches) > 1)
        => /\ Len(requests) = last.preCount + Len(last.pre.targets.branches)
           /\ \A k \in 1..Len(last.pre.targets.branches) :
                LET clone == requests[last.preCount + k]
                    b == last.pre.targets.branches[k]
                    hod == findUserForRole(users, "State Division HOD",
                                           last.pre.targets.states[1], b)
                IN  /\ clone.currentStage = "State Division HOD"
                    /\ clone.targets.branches = <<b>>
                    /\ clone.status = "in-progress"
                    /\ hod # NoUser
                    /\ clone.currentAssigneeId = hod._id
                    /\ Len(clone.history) = 1
                    /\ clone.history[1].action = "forwarded"
           /\ Now.currentAssigneeId = NoId
           /\ Now.currentStage = last.pre.currentStage
           /\ Now.status = "in-progress"

(* C7 - fan-out is all or nothing: after an approve that failed no request has
   been added and the request it addressed is as it was. *)
C7_FanOutAllOrNothing ==
    (last.op = "PATCH" /\ last.action = "approve" /\ ~Accepted(last.status))
        => /\ Len(requests) = last.preCount
           /\ \E i \in 1..Len(requests) : requests[i] = last.pre

(* C8 - an accepted approve leaves the request approved exactly when the stage
   the request had has no next role or nobody is resolved for that next role;
   the approved request then has no assignee, the stage it had, and a last
   history entry whose toStage is null. *)
C8_ApprovedExactlyAtChainEnd ==
    AcceptedPatch("approve")
        => LET nextRole == getNextRole(last.pre.currentStage)
               terminal == \/ nextRole = Null
                           \/ ResolvedFor(last.pre, nextRole) = NoId
           IN  /\ Now.status = "approved" <=> terminal
               /\ Now.status = "approved"
                    => /\ Now.currentAssigneeId = NoId
                       /\ Now.currentStage = last.pre.currentStage
                       /\ LastEntry(Now).toStage = Null

(* C9 - a reject by the assignee of a request whose stage has no previous role
   is refused with "Cannot reject at this level", and one whose stage's
   previous role resolves to nobody is refused with "Previous user not found";
   either way the collection stays as it was. *)
C9_RejectNeverTerminates ==
    \A in \in PatchInputs :
        (in.action = "reject" /\ in.user._id = requests[in.id].currentAssigneeId)
            => LET prevRole == getPreviousRole(requests[in.id].currentStage)
               IN  /\ prevRole = Null
                        => /\ Answer(in).status = 400
                           /\ Answer(in).error = "Cannot reject at this level"
                           /\ Answer(in).db = requests
                   /\ (prevRole # Null /\ ResolvedFor(requests[in.id], prevRole) = NoId)
                        => /\ Answer(in).status = 400
                           /\ Answer(in).error = "Previous user not found"
                           /\ Answer(in).db = requests

\* the number of reject entries in a history
RECURSIVE Rejects(_)
Rejects(history) ==
    IF history = <<>> THEN 0
    ELSE (IF Head(history).action = "reject" THEN 1 ELSE 0) + Rejects(Tail(history))

(* C10 - an accepted reject raises the request's rollbackCount by exactly one
   and leaves it in-progress; an accepted approve or submit leaves the count as
   it was, a refused call leaves the whole collection as it was, and a created
   or cloned request starts at zero: so the rollbackCount of every request is
   the number of rejects accepted on it, which its history records. *)
C10_RollbackCountCountsRejects ==
    /\ AcceptedPatch("reject")
        => /\ Now.rollbackCount = last.pre.rollbackCount + 1
           /\ Now.status = "in-progress"
    /\ (AcceptedPatch("approve") \/ AcceptedPatch("submit"))
        => Now.rollbackCount = last.pre.rollbackCount
    /\ (last.op = "POST" /\ Accepted(last.status)) => Now.rollbackCount = 0
    /\ \A i \in 1..Len(requests) :
        /\ requests[i].rollbackCount = Rejects(requests[i].history)
        /\ Len(requests[i].history) = 1 => requests[i].rollbackCount = 0
    /\ \A in \in PatchInputs :
        Answer(in).status # 200 => Answer(in).db = requests

\* a second reject has been accepted on a request that was approved before
C10_Witness ==
    /\ AcceptedPatch("reject")
    /\ Now.rollbackCount = 2
    /\ \E k \in 1..Len(Now.history) : Now.history[k].action = "approve"

(* C11 - an accepted submit appends exactly one versionHistory entry, whose
   version is the version the request had plus one, sets version to that
   value, keeps the earlier entries and leaves currentStage, currentAssigneeId,
   status and rollbackCount as they were; so in every reachable state the k-th
   entry (counted from 1) of every request has version k + 1 and version is
   1 + the length of versionHistory. *)
C11_VersionCountsSubmits ==
    /\ AcceptedPatch("submit")
        => /\ Len(Now.versionHistory) = Len(last.pre.versionHistory) + 1
           /\ Now.versionHistory[Len(Now.versionHistory)].version = last.pre.version + 1
           /\ Now.version = last.pre.version + 1
           /\ SubSeq(Now.versionHistory, 1, Len(last.pre.versionHistory))
                = last.pre.versionHistory
           /\ Now.currentStage = last.pre.currentStage
           /\ Now.currentAssigneeId = last.pre.currentAssigneeId
           /\ Now.status = last.pre.status
           /\ Now.rollbackCount = last.pre.rollbackCount
    /\ \A i \in 1..Len(requests) :
        /\ requests[i].version = 1 + Len(requests[i].versionHistory)
        /\ \A k \in 1..Len(requests[i].versionHistory) :
            requests[i].versionHistory[k].version = k + 1

\* a second submit has been accepted
C11_Witness ==
    /\ AcceptedPatch("submit")
    /\ Len(Now.versionHistory) = 2
    /\ Now.version = 3

\* an active template is stored for a request's first state and first vertical
TemplateFor(req) ==
    /\ Len(req.targets.verticals) > 0
    /\ \E t \in templates :
        /\ t.state = req.targets.states[1]
        /\ t.vertical = req.targets.verticals[1]
        /\ t.isActive = TRUE

(* C12 - a submit is accepted only from an actor whose hierarchy role is
   Division YP and only when an active template is stored for the request's
   first target state and first target vertical; a submit that is not accepted
   leaves the collection as it was; the assignee who is not Division YP is
   answered 403, and the Division YP who submits data for a request without
   such a template (a retired one, none, or no target vertical) is answered
   400 "No active template for state and vertical". *)
C12_SubmitNeedsDivisionYPAndTemplate ==
    \A in \in PatchInputs :
        in.action = "submit"
            => LET req == requests[in.id]
                   role == getUserHierarchyRole(in.user)
                   mine == in.user._id = req.currentAssigneeId
               IN  /\ Answer(in).status = 200
                        => (mine /\ role = "Division YP" /\ in.data /\ TemplateFor(req))
                   /\ Answer(in).status # 200 => Answer(in).db = requests
                   /\ (mine /\ role # "Division YP")
                        => /\ Answer(in).status = 403
                           /\ Answer(in).error = "Only Division YP can submit data"
                   /\ (mine /\ role = "Division YP" /\ in.data /\ ~TemplateFor(req))
                        => /\ Answer(in).status = 400
                           /\ Answer(in).error = "No active template for state and vertical"

\* a submit for a request whose template is retired has been refused
C12_Witness ==
    /\ RefusedPatch("submit", 400, "No active template for state and vertical")
    /\ last.pre.targets.verticals = <<"V1">>
    /\ \E t \in templates : t.state = "S1" /\ t.vertical = "V1" /\ ~t.isActive
    /\ \E i \in 1..Len(requests) : requests[i] = last.pre

\* the user of the directory with an identity
UserById(id) == CHOOSE u \in Range(users) : u._id = id

(* C13 - an accepted POST by an actor of hierarchy role R looks up the role
   just below R at the first target state and branch: when somebody is
   resolved the new request is at that role's stage, assigned to that identity
   and in-progress, otherwise it is open, unassigned and at stage R; either way
   it has version 1, rollbackCount 0, an empty versionHistory and a history of
   exactly one entry, the actor's 'created'. *)
C13_CreateResolvesNextRole ==
    (last.op = "POST" /\ last.status = 201)
        => LET R == getUserHierarchyRole(UserById(last.user))
               nextRole == getNextRole(R)
               resolved == IF nextRole = Null THEN NoId ELSE ResolvedFor(Now, nextRole)
           IN  /\ last.id = Len(requests)
               /\ Len(requests) = last.preCount + 1
               /\ R # Null
               /\ resolved # NoId
                    => /\ Now.currentStage = nextRole
                       /\ Now.currentAssigneeId = resolved
                       /\ Now.status = "in-progress"
               /\ resolved = NoId
                    => /\ Now.currentStage = R
                       /\ Now.currentAssigneeId = NoId
                       /\ Now.status = "open"
               /\ Now.version = 1
               /\ Now.rollbackCount = 0
               /\ Now.versionHistory = <<>>
               /\ Len(Now.history) = 1
               /\ Now.history[1].action = "created"
               /\ Now.history[1].userId = last.user
               /\ Now.history[1].toStage = Now.currentStage
               /\ Now.createdBy = last.user

\* a request has been created for which nobody was resolved
C13_Witness ==
    /\ last.op = "POST"
    /\ last.status = 201
    /\ Now.status = "open"
    /\ Now.currentAssigneeId = NoId
    /\ Now.currentStage = "PMO"

\* the order of the ranks, highest first
RankOrder ==
    <<"PMO", "CEO NITI", "State Advisor", "State YP", "State Division HOD", "Division YP">>

\* the hierarchy roles a user holds
Held(user) == {user.roles[k].role : k \in 1..Len(user.roles)} \cap Range(RankOrder)

\* the highest-ranked hierarchy role a user holds, null when the user holds none
HighestHeld(user) ==
    IF Held(user) = {} THEN Null
    ELSE RankOrder[CHOOSE i \in 1..Len(RankOrder) :
            /\ RankOrder[i] \in Held(user)
            /\ \A j \in 1..Len(RankOrder) : RankOrder[j] \in Held(user) => i <= j]

(* C14 - for a user holding any list of roles, in any stored order, the
   hierarchy role computed for the user is the highest-ranked role of PMO >
   CEO NITI > State Advisor > State YP > State Division HOD > Division YP that
   the user holds, and null exactly when the user holds none of them; and the
   role every create, approve, reject and submit records for its actor in the
   history is that role. *)
C14_HighestRoleWins ==
    /\ \A user \in Range(users) :
        /\ getUserHierarchyRole(user) = HighestHeld(user)
        /\ getUserHierarchyRole(user) = Null <=> Held(user) = {}
    /\ last.op = "role" => last.action = HighestHeld(UserById(last.user))
    /\ \A i \in 1..Len(requests) : \A k \in 1..Len(requests[i].history) :
        requests[i].history[k].userRole
            = HighestHeld(UserById(requests[i].history[k].userId))

\* the role of a user who stores a lower role before a higher one was computed
C14_Witness ==
    /\ last.op = "role"
    /\ last.action = "CEO NITI"
    /\ Len(UserById(last.user).roles) = 3
    /\ UserById(last.user).roles[1].role = "Division YP"
    /\ UserById(last.user).roles[2].role = "Super Admin"
    /\ UserById(last.user).roles[3].role = "CEO NITI"

\* the effective deadline of a request: its deadline if set, otherwise its timeline
Effective(req) == IF req.deadline # NoDate THEN req.deadline ELSE req.timeline

(* C15 - the deadline of a request changes only in an approve by an actor
   whose hierarchy role is State Advisor, and only to the supplied value when
   that is strictly earlier than the effective deadline the request had
   (its deadline if set, otherwise its timeline); no call changes the deadline
   of another request or a timeline, so the effective deadline of a request
   never moves later. *)
C15_DeadlineOnlyTightens ==
    /\ \A in \in PatchInputs :
        LET req == requests[in.id]
            after == Answer(in).db
        IN  /\ \A j \in 1..Len(requests) :
                /\ after[j].timeline = requests[j].timeline
                /\ j # in.id => after[j].deadline = requests[j].deadline
            /\ after[in.id].deadline # req.deadline
                => /\ in.action = "approve"
                   /\ Answer(in).status = 200
                   /\ getUserHierarchyRole(in.user) = "State Advisor"
                   /\ after[in.id].deadline = in.newDeadline
                   /\ in.newDeadline # NoDate
                   /\ in.newDeadline < Effective(req)
            /\ Effective(after[in.id]) <= Effective(req)
    /\ (last.op = "PATCH" /\ Accepted(last.status))
        => Effective(Now) <= Effective(last.pre)
    /\ \A i \in 1..Len(requests) : Effective(requests[i]) <= requests[i].timeline

\* a State Advisor has tightened a deadline that was already set
C15_Witness ==
    /\ AcceptedPatch("approve")
    /\ last.pre.deadline # NoDate
    /\ Now.deadline # NoDate
    /\ Now.deadline < last.pre.deadline

(* C16 - history is append-only: an accepted approve, reject or submit leaves
   the request's earlier entries as they were and appends exactly one entry,
   the actor's, whose fromStage is the stage the request had and whose toStage
   is the stage it has now (null when the approve ended the request); an
   accepted POST starts the history with one entry to the stage the request
   has; a refused call leaves the collection as it was; and no call touches
   the history of another request. *)
C16_HistoryAppendOnly ==
    /\ (last.op = "PATCH" /\ Accepted(last.status))
        => /\ Len(Now.history) = Len(last.pre.history) + 1
           /\ SubSeq(Now.history, 1, Len(last.pre.history)) = last.pre.history
           /\ LastEntry(Now).action = last.action
           /\ LastEntry(Now).userId = last.user
           /\ LastEntry(Now).fromStage = last.pre.currentStage
           /\ LastEntry(Now).toStage
                = IF Now.status = "approved" THEN Null ELSE Now.currentStage
    /\ (last.op = "POST" /\ Accepted(last.status))
        => /\ Len(Now.history) = 1
           /\ Now.history[1].fromStage = Null
           /\ Now.history[1].toStage = Now.currentStage
    /\ \A in \in PatchInputs :
        LET after == Answer(in).db
        IN  /\ Len(after) >= Len(requests)
            /\ \A j \in 1..Len(requests) :
                j # in.id => after[j].history = requests[j].history
            /\ Answer(in).status # 200 => after = requests
            /\ Answer(in).status = 200
                => /\ Len(after[in.id].history) = Len(requests[in.id].history) + 1
                   /\ SubSeq(after[in.id].history, 1, Len(requests[in.id].history))
                        = requests[in.id].history

\* an approve has ended a request that had been through three calls before
C16_Witness ==
    /\ AcceptedPatch("approve")
    /\ Now.status = "approved"
    /\ LastEntry(Now).toStage = Null
    /\ Len(Now.history) = 4
    /\ \E k \in 1..3 : Now.history[k].action = "reject"

(* C17 - overlapping approve, reject and submit calls on one request are
   linearized: an accepted call has been applied to the request as the call
   read it, so the request's history is the history the call read plus the
   call's own entry; a call that read a request another call has written
   since is refused. *)
C17_OverlapLinearized ==
    (last.op = "PATCH" /\ Accepted(last.status))
        => /\ Len(Now.history) = Len(last.pre.history) + 1
           /\ SubSeq(Now.history, 1, Len(last.pre.history)) = last.pre.history

(* C18 - under every interleaving of submit calls on one request the versions
   of versionHistory go up by exactly one from 2 on, none twice, and version is
   1 + the length of versionHistory. *)
C18_VersionsUnderOverlap ==
    \A i \in 1..Len(requests) :
        /\ requests[i].version = 1 + Len(requests[i].versionHistory)
        /\ \A k \in 1..Len(requests[i].versionHistory) :
            requests[i].versionHistory[k].version = k + 1

----------------------------------------------------------------------------
(* PM visit lifecycle *)

\* the last call was a PM visit PATCH with this action and it was accepted
AcceptedVisitPatch(action) ==
    last.op = "VISIT_PATCH" /\ last.action = action /\ last.status = 200

\* the caller of the call that has just been answered holds PMO
ActorHoldsPMO(call) ==
    \E u \in Range(users) : u._id = call.user /\ \E k \in 1..Len(u.roles) : u.roles[k].role = "PMO"

\* the edges a visit's status may follow, with the call that takes them
VisitEdge(from, to, call) ==
    /\ call.op = "VISIT_PATCH"
    /\ call.status = 200
    /\ \/ from = "draft" /\ to = "active" /\ call.action = "activate" /\ ActorHoldsPMO(call)
       \/ from = "active" /\ to = "completed" /\ call.action = "complete" /\ ActorHoldsPMO(call)
       \/ from \in {"draft", "active"} /\ to = "cancelled" /\ call.action = "cancel"

\* C19: every change of a visit's status follows one of the edges Draft->Active
\* (activate, by an actor holding PMO), Active->Completed (complete, by an actor
\* holding PMO), Draft->Cancelled or Active->Cancelled (cancel): Cancelled is never
\* reached from Completed, and neither Active nor Completed from Cancelled.
C19_VisitStatusEdges ==
    [][\A id \in 1..Len(visits) :
            visits'[id].status # visits[id].status
                => /\ last'.id = id
                   /\ VisitEdge(visits[id].status, visits'[id].status, last')]_vars

\* a visit has just been completed by its second accepted PATCH, and another visit
\* was cancelled
C19_Witness ==
    /\ AcceptedVisitPatch("complete")
    /\ last.pre.status = "active"
    /\ visits[last.id].status = "completed"
    /\ \E id \in 1..Len(visits) : visits[id].status = "cancelled"

\* the precondition of a PM visit PATCH fails
VisitPreconditionFails(user, visit, action) ==
    \/ action = "activate" /\ visit.status # "draft"
    \/ action = "complete" /\ visit.status # "active"
    \/ action = "cancel" /\ visit.status = "completed"
    \/ /\ action \in {"activate", "complete"}
       /\ \A k \in 1..Len(user.roles) : user.roles[k].role # "PMO"

\* C20: an activate, complete or cancel call whose precondition fails (activate on
\* a visit that is not Draft, complete on one that is not Active, cancel on a
\* Completed one, activate or complete by an actor who does not hold PMO) is
\* rejected and leaves the visit's status, deadline ledger and audit trail as they
\* were.
C20_FailedVisitCallChangesNothing ==
    \A user \in Range(users), id \in 1..Len(visits),
       action \in {"activate", "complete", "cancel"} :
        VisitPreconditionFails(user, visits[id], action)
            => LET r == VisitPATCH(visits, user, id, action)
               IN  /\ r.status \in {400, 403}
                   /\ r.db = visits

\* a cancel of a completed visit has just been refused, and the visit still has the
\* three audit entries of its creation, activation and completion
C20_Witness ==
    /\ last.op = "VISIT_PATCH"
    /\ last.action = "cancel"
    /\ last.status = 400
    /\ last.error = "Cannot cancel completed visits"
    /\ \E id \in 1..Len(visits) :
        /\ visits[id] = last.pre
        /\ visits[id].status = "completed"
        /\ Len(visits[id].auditLog) = 3

----------------------------------------------------------------------------
(* PM visit creation *)

\* C21: createVisit with finalDeadline not strictly before visitDate creates no
\* visit, and answers a caller holding PMO with the validation error; with
\* finalDeadline < visitDate it creates exactly one visit, in status Draft, whose
\* audit trail holds exactly one entry, 'created'.
C21_CreateVisitChecksDateOrder ==
    /\ \A user \in Range(users), state \in VisitStates, dates \in VisitDates :
        LET r == VisitPOST(visits, users, user, state, dates[1], dates[2])
        IN  IF dates[2] >= dates[1]
            THEN /\ r.db = visits
                 /\ ~Accepted(r.status)
                 /\ requireRoles(user, {"PMO"})
                        => /\ r.status = 400
                           /\ r.error = "Final deadline must be at least 1 day before the visit date"
            ELSE requireRoles(user, {"PMO"})
                    => /\ r.status = 201
                       /\ Len(r.db) = Len(visits) + 1
                       /\ SubSeq(r.db, 1, Len(visits)) = visits
                       /\ r.db[Len(r.db)].status = "draft"
                       /\ Len(r.db[Len(r.db)].auditLog) = 1
                       /\ r.db[Len(r.db)].auditLog[1].action = "created"
    /\ (last.op = "VISIT_POST" /\ last.status = 201)
            => /\ Len(visits) = last.preCount + 1
               /\ visits[last.id].finalDeadline < visits[last.id].visitDate
               /\ visits[last.id].status = "draft"
               /\ Len(visits[last.id].auditLog) = 1
               /\ visits[last.id].auditLog[1].action = "created"
    /\ (last.op = "VISIT_POST" /\ last.status # 201) => Len(visits) = last.preCount

\* a second visit has just been created, after the first was activated
C21_Witness ==
    /\ last.op = "VISIT_POST"
    /\ last.status = 201
    /\ last.id = 2
    /\ visits[1].status = "active"
    /\ visits[2].status = "draft"

\* the identities holding this role for this state by one role assignment
Holders(role, state) ==
    {u._id : u \in {h \in Range(users) :
                        \E k \in 1..Len(h.roles) :
                            /\ h.roles[k].role = role
                            /\ role \in {"PMO", "CEO NITI"} \/ h.roles[k].state = state}}

\* C22: after createVisit the deadline ledger holds exactly one entry per hierarchy
\* role, six entries ordered from Division YP (earliest due date) to PMO, each
\* Pending, with assignedIdentity an identity holding that role in the visit's
\* state, or null when no holder exists; an unresolved role never makes
\* createVisit fail.
C22_LedgerOnePerRole ==
    /\ \A id \in 1..Len(visits) :
        LET ledger == visits[id].deadlines
        IN  /\ Len(ledger) = 6
            /\ \A k \in 1..6 :
                /\ ledger[k].role = HIERARCHY_CHAIN[7 - k]
                /\ ledger[k].status = "pending"
                /\ ledger[1].deadline <= ledger[k].deadline
                /\ IF Holders(ledger[k].role, visits[id].state) = {}
                   THEN ledger[k].assignedUserId = NoId
                   ELSE ledger[k].assignedUserId \in Holders(ledger[k].role, visits[id].state)
    /\ \A user \in Range(users), state \in VisitStates, dates \in CascadeDates :
        (requireRoles(user, {"PMO"}) /\ dates[2] < dates[1])
            => VisitPOST(visits, users, user, state, dates[1], dates[2]).status = 201

\* the due date of a role in a visit's ledger, in hundredths of a day
Due(visit, role) ==
    visit.deadlines[CHOOSE k \in 1..Len(visit.deadlines) : visit.deadlines[k].role = role].deadline

\* C23: for every visitDate and finalDeadline with finalDeadline at least 20 days
\* before visitDate, the due dates satisfy due(Division YP) <= due(HOD) <= due(YP)
\* <= due(Advisor) <= due(CEO) <= due(PMO), and due(PMO) = finalDeadline.
C23_DueDatesOrdered ==
    \A id \in 1..Len(visits) :
        visits[id].visitDate - visits[id].finalDeadline >= 20
            => /\ \A k \in 1..5 :
                    Due(visits[id], HIERARCHY_CHAIN[k + 1]) <= Due(visits[id], HIERARCHY_CHAIN[k])
               /\ Due(visits[id], "PMO") = visits[id].finalDeadline * 100

\* a visit has been created with its final deadline 25 days before the visit
C23_Witness ==
    /\ last.op = "VISIT_POST"
    /\ last.status = 201
    /\ visits[last.id].visitDate - visits[last.id].finalDeadline = 25
    /\ Due(visits[last.id], "Division YP") < Due(visits[last.id], "CEO NITI")

\* the table of the cascade: the floor in days and the share of the lead time in
\* hundredths
FloorDays(role) ==
    CASE role = "Division YP" -> 15 [] role = "State Division HOD" -> 12
      [] role = "State YP" -> 8 [] role = "State Advisor" -> 5
      [] role = "CEO NITI" -> 2 [] role = "PMO" -> 0

FractionPercent(role) ==
    CASE role = "Division YP" -> 95 [] role = "State Division HOD" -> 80
      [] role = "State YP" -> 60 [] role = "State Advisor" -> 40
      [] role = "CEO NITI" -> 20 [] role = "PMO" -> 0

\* C24: for every role, dueAt = finalDeadline - max(floorDays(role),
\* fraction(role) * L) days, L the lead time in days between finalDeadline and
\* visitDate taken as a positive magnitude: for a lead time of 25 days the offset
\* of Division YP is 23.75 days and that of HOD is 20 days.
C24_DueDateFormula ==
    \A id \in 1..Len(visits) :
        LET L == visits[id].visitDate - visits[id].finalDeadline
        IN  \A k \in 1..6 :
                Due(visits[id], HIERARCHY_CHAIN[k])
                    = visits[id].finalDeadline * 100
                        - Max(FloorDays(HIERARCHY_CHAIN[k]) * 100,
                              FractionPercent(HIERARCHY_CHAIN[k]) * L)

----------------------------------------------------------------------------
(* PM visit: what a transition leaves alone *)

\* C25: activate, complete and cancel change only the visit's status and append
\* exactly one entry to its audit trail: the deadline ledger computed at creation
\* (roles, due dates, assigned identities, entry statuses), visitDate and
\* finalDeadline are never changed afterwards, and earlier audit entries are never
\* removed or altered.
C25_VisitTransitionFrame ==
    [][\A id \in 1..Len(visits) :
        LET before == visits[id]
            after == visits'[id]
        IN  /\ after.deadlines = before.deadlines
            /\ after.visitDate = before.visitDate
            /\ after.finalDeadline = before.finalDeadline
            /\ after.state = before.state
            /\ after.createdBy = before.createdBy
            /\ SubSeq(after.auditLog, 1, Len(before.auditLog)) = before.auditLog
            /\ IF last'.op = "VISIT_PATCH" /\ last'.status = 200 /\ last'.id = id
               THEN /\ Len(after.auditLog) = Len(before.auditLog) + 1
                    /\ after.auditLog[Len(after.auditLog)].action = last'.action
               ELSE after = before]_vars

\* an active visit has just been cancelled: its audit trail holds the entries of
\* its creation, activation and cancellation, its ledger is the one it was read with
C25_Witness ==
    /\ AcceptedVisitPatch("cancel")
    /\ last.pre.status = "active"
    /\ visits[last.id].status = "cancelled"
    /\ Len(visits[last.id].auditLog) = 3
    /\ visits[last.id].auditLog[2].action = "activate"
    /\ visits[last.id].deadlines = last.pre.deadlines

----------------------------------------------------------------------------
(* Directory resolution *)

\* the identities holding this role in this scope by one role assignment: any
\* assignment of PMO or CEO, an assignment with the state for the other roles, and
\* also with the branch for HOD and Division YP where the scope names one
HoldersIn(role, state, branch) ==
    {u._id : u \in {h \in Range(users) :
        \E k \in 1..Len(h.roles) :
            /\ h.roles[k].role = role
            /\ \/ role \in {"PMO", "CEO NITI"}
               \/ /\ h.roles[k].state = state
                  /\ (role \in {"State Division HOD", "Division YP"} /\ branch # Null)
                        => h.roles[k].branch = branch}}

\* C26: resolve(role, scope) returns an identity only if that identity holds one
\* single role assignment that matches (PMO, CEO: any assignment of the role;
\* Advisor, YP: the role with the scope's state; HOD, Division YP: the role with the
\* scope's state and branch), and none when no such holder exists: an identity that
\* holds the role only in another state or branch, or the state only under another
\* role, is never returned.
C26_ResolveMatchesOneAssignment ==
    /\ last.op = "resolve"
        => IF HoldersIn(last.action, last.pre.state, last.pre.branch) = {}
           THEN last.id = NoId
           ELSE last.id \in HoldersIn(last.action, last.pre.state, last.pre.branch)
    /\ \A id \in 1..Len(visits) : \A k \in 1..Len(visits[id].deadlines) :
        LET entry == visits[id].deadlines[k]
        IN  entry.assignedUserId # NoId
                => entry.assignedUserId \in HoldersIn(entry.role, visits[id].state, Null)

----------------------------------------------------------------------------
(* Failures of the directory during approve *)

\* the database call of a forwarding approve that looks up the next role's holder
\* (call 1 is the findById of the request)
ForwardLookup == 2

\* C27: if the directory lookup for the next role fails during approve, the call
\* behaves as if the resolver returned none: the request becomes Approved with no
\* current assignee, and the failure is not reported to the caller as an error.
C27_LookupFailureApproves ==
    \A user \in Range(users), id \in 1..Len(requests), newDeadline \in NewDeadlines :
        LET userRole == getUserHierarchyRole(user)
            healthy == PATCH(requests, users, templates, user, id, "approve", FALSE,
                             newDeadline, 0)
            failed == PATCH(requests, users, templates, user, id, "approve", FALSE,
                            newDeadline, ForwardLookup)
        IN  (/\ healthy.status = 200
             /\ getNextRole(userRole) # Null
             /\ ~IsFanOut(requests[id], userRole))
                => /\ failed.status = 200
                   /\ failed.db[id].status = "approved"
                   /\ failed.db[id].currentAssigneeId = NoId

----------------------------------------------------------------------------
(* PM visit calls that overlap *)

\* C28: when complete and cancel, or activate and cancel, race on one visit, the
\* outcome is that of a serial order of the two calls: a visit that has become
\* Completed is never afterwards Cancelled, and a visit that has become Cancelled
\* is never afterwards Active or Completed.
C28_VisitRaceSerial ==
    [][\A id \in 1..Len(visits) :
        /\ visits[id].status = "completed" => visits'[id].status # "cancelled"
        /\ visits[id].status = "cancelled"
                => visits'[id].status \notin {"active", "completed"}]_vars

----------------------------------------------------------------------------
(* Fan-out under overlap; what a transition leaves alone *)

\* the clones made for a branch: the requests whose history starts with the
\* 'forwarded' entry of that branch
ClonesFor(branch) ==
    {i \in 1..Len(requests) :
        /\ requests[i].history[1].action = "forwarded"
        /\ requests[i].targets.branches = <<branch>>}

\* C29: fan-out happens at most once per parent request: under every interleaving
\* of approve calls, two overlapping approves by the State YP assignee included, at
\* most one clone per target branch is ever created for a parent.
C29_FanOutAtMostOnce ==
    \A parent \in Created(requests) :
        \A k \in 1..Len(requests[parent].targets.branches) :
            Cardinality(ClonesFor(requests[parent].targets.branches[k])) <= 1

\* C30: approve, reject and submit on one request never modify any other existing
\* request (fan-out parent, sibling clone or unrelated request); the set of
\* requests grows only through create and through the multi-branch approve at
\* State YP (an approve at any other stage, or with at most one target branch,
\* creates no request), and no request is ever deleted.
C30_OtherRequestsUntouched ==
    [][/\ Len(requests') >= Len(requests)
       /\ \A i \in 1..Len(requests) :
            requests'[i] # requests[i]
                => last'.op = "PATCH" /\ last'.status = 200 /\ last'.id = i
       /\ Len(requests') > Len(requests)
            => \/ last'.op = "POST" /\ last'.status = 201
               \/ /\ last'.op = "PATCH"
                  /\ last'.action = "approve"
                  /\ last'.pre.currentStage = "State YP"
                  /\ Len(last'.pre.targets.branches) > 1]_vars

\* a clone has just been acted on while its parent and its sibling exist
C30_Witness ==
    /\ AcceptedPatch("approve")
    /\ Len(requests) >= 3
    /\ requests[last.id].history[1].action = "forwarded"
    /\ \E i \in 1..Len(requests) : i # last.id /\ requests[i].history[1].action = "forwarded"

----------------------------------------------------------------------------
(* Lists *)

\* C31: a user whose hierarchy role is State Advisor lists only items of the
\* Advisor's own state: for every list query on workflows and on PM visits, a query
\* whose state filter names another state included, every item returned targets the
\* Advisor's state; a user whose hierarchy role is below Advisor is returned only
\* workflows whose current assignee is that user.
C31_ListsStayInScope ==
    LET user == UserById(last.user)
        userRole == getUserHierarchyRole(user)
    IN  /\ (last.op = "GET" /\ userRole = "State Advisor")
                => \A i \in last.pre.items :
                        AdvisorState(user) \in Range(requests[i].targets.states)
        /\ (last.op = "VISIT_GET" /\ userRole = "State Advisor")
                => \A i \in last.pre.items : visits[i].state = AdvisorState(user)
        /\ (last.op = "GET"
                /\ userRole \in {"State YP", "State Division HOD", "Division YP"})
                => \A i \in last.pre.items : requests[i].currentAssigneeId = user._id

----------------------------------------------------------------------------
(* Users *)

\* two role assignments are the same role at the same scope
SameScope(a, b) ==
    /\ a.role = b.role
    /\ \/ a.role \in {"PMO", "CEO NITI"}
       \/ a.role \in {"State Advisor", "State YP"} /\ a.state = b.state
       \/ /\ a.role \in {"State Division HOD", "Division YP"}
          /\ a.state = b.state
          /\ a.branch = b.branch

\* C32: after any sequence of user create and role-update operations, no two
\* distinct users hold the same role at the same scope (PMO and CEO NITI globally,
\* State Advisor and State YP per state, State Division HOD and Division YP per
\* state and branch); an assignment that conflicts with another holder is rejected
\* with 409 and changes nothing.
C32_RolesUniquePerScope ==
    /\ \A i, j \in 1..Len(users) :
        i # j => \A k \in 1..Len(users[i].roles), m \in 1..Len(users[j].roles) :
                    ~SameScope(users[i].roles[k], users[j].roles[m])
    /\ (last.op \in {"USER_POST", "USER_PATCH"} /\ last.status = 409)
            => users = last.pre.users

\* C33: in the legacy PATCH only the current assignee can approve or reject: a
\* call by any other user, also while the request has no assignee, is refused
\* and changes neither status, assignee nor history
C33_LegacyOnlyAssigneeActs ==
    \A id \in 1..Len(legacy), user \in Range(users), action \in {"approve", "reject"} :
        legacy[id].currentAssigneeId # user._id =>
            LET r == LegacyPATCH(legacy, users, user, id, action)
            IN  /\ ~Accepted(r.status)
                /\ r.db = legacy

\* the approvals that take a request from the CEO to the end of the chain
MaxApprovals == Len(HIERARCHY_CHAIN) - 1

ApproveOnly(w) ==
    \A k \in 2..Len(w.history) : w.history[k].action = "approve"

\* C34: a request whose accepted calls are approves alone is no longer assigned
\* after five approvals, whatever roles the users of the directory hold
C34_ApproveOnlyRunEnds ==
    \A id \in 1..Len(requests) :
        (ApproveOnly(requests[id]) /\ Len(requests[id].history) >= 1 + MaxApprovals)
            => requests[id].currentAssigneeId = NoId

\* the statuses of the schema the engine writes
WrittenStatuses == {"open", "in-progress", "approved"}

\* C35: through create, approve, reject and submit a request's status is open,
\* in-progress or approved: rejected, closed and rollback are never reached
C35_StatusStaysInThree ==
    \A id \in 1..Len(requests) : requests[id].status \in WrittenStatuses

\* a second reject has been accepted on a request that holds a submission: the
\* request is still in progress
C35_Witness ==
    /\ AcceptedPatch("reject")
    /\ Now.status = "in-progress"
    /\ Now.rollbackCount = 2
    /\ \E k \in 1..Len(Now.history) : Now.history[k].action = "submit"

\* a request without assignee that is neither approved nor rejected
Stuck(w) == w.currentAssigneeId = NoId /\ w.status \in {"open", "in-progress"}

\* C36: a request whose currentAssignee is null in a non-terminal status is never
\* advanced: every approve, reject or submit on it is refused, and its status,
\* stage and assignee never change again
C36_UnassignedNeverAdvances ==
    [][\A id \in 1..Len(requests) :
        Stuck(requests[id])
            => /\ \A user \in Range(users), action \in {"approve", "reject", "submit"},
                     data \in BOOLEAN :
                    LET r == PATCH(requests, users, templates, user, id, action, data,
                                   NoDate, 0)
                    IN  r.status = 403 /\ r.db = requests
               /\ requests'[id].status = requests[id].status
               /\ requests'[id].currentStage = requests[id].currentStage
               /\ requests'[id].currentAssigneeId = requests[id].currentAssigneeId]_vars

\* the users a request's currentAssigneeId refers to
Assignees(w) == {u \in Range(users) : u._id = w.currentAssigneeId}

\* C37: whenever a request, original or clone, has a current assignee, that
\* user holds the hierarchy role named by currentStage
C37_AssigneeHoldsStageRole ==
    \A id \in 1..Len(requests) :
        requests[id].currentAssigneeId # NoId
            => /\ Assignees(requests[id]) # {}
               /\ \A u \in Assignees(requests[id]) : HasRole(u, requests[id].currentStage)

\* after a reject, an approve has forwarded a request to a user whose highest
\* role is not the one of the stage
C37_Witness ==
    /\ AcceptedPatch("approve")
    /\ Now.currentAssigneeId # NoId
    /\ \E u \in Assignees(Now) : getUserHierarchyRole(u) # Now.currentStage
    /\ \E k \in 1..Len(Now.history) : Now.history[k].action = "reject"

\* a visit that is completed or cancelled
VisitEnded(v) == v.status \in {"completed", "cancelled"}

\* C38: once a visit is completed or cancelled, no activate, complete or cancel
\* call changes it: its status and its audit trail stay as they were
C38_EndedVisitsNeverChange ==
    \A id \in 1..Len(visits) :
        VisitEnded(visits[id])
            => \A user \in Range(users), action \in {"activate", "complete", "cancel"} :
                LET r == VisitPATCH(visits, user, id, action)
                IN  /\ ~Accepted(r.status)
                    /\ r.db[id] = visits[id]

====
